---- MODULE Spec2Model ----
(***************************************************************************)
(* A model of kobodl's protocol client (src/kobodl/kobo.py) and of the     *)
(* callers in src/kobodl/actions.py.                                       *)
(*                                                                         *)
(* Conventions.                                                            *)
(*  - Strings the program only compares with "" are naturals: 0 is the     *)
(*    empty string, n > 0 is the n-th value the vendor issued.             *)
(*  - The HTTP transport (urllib's opener) is abstract: opening a request  *)
(*    yields either a response chosen by the server, or a failure that is  *)
(*    no HTTPError (URLError).  A response with an error status carries an *)
(*    error body, which is either JSON text without the fields of the      *)
(*    endpoint ("errjson") or no JSON at all ("nonjson").                  *)
(*  - An exception in flight is the variable exc; "none" when there is     *)
(*    none.                                                                *)
(***************************************************************************)
EXTENDS Integers, Sequences, FiniteSets, TLC

VARIABLES
    user,       \* settings.User: the identity the Kobo object works on
    persisted,  \* the identity as last written by Globals.Settings.Save()
    saves,      \* number of Globals.Settings.Save() calls
    gen,        \* server: number of token pairs issued so far
    req,        \* the Request object built by the running operation
    rreq,       \* the Request object built by __RefreshAuthentication
    rpc,        \* control position inside make_request / hook / refresh
    frames,     \* suspended activations below the running make_request
    sent,       \* history: the sends of req, in order, with the status each got
    rsent,      \* history: the sends of rreq, while __RefreshAuthentication runs
    refreshes,  \* history: number of __RefreshAuthentication calls
    retval,     \* the value the last make_request activation returned
    wire,       \* history: the cursor header of every library-sync send
    faults,     \* environment: error answers and failures it may still inject
    exc,        \* exception in flight ("none" if none)
    pc,         \* control position of the running operation
    op,         \* the running operation
    ret,        \* what the operation returned to its caller
    calls,      \* number of operations started
    library,    \* server: number of pages the library consists of
    fullBookList, \* GetMyBookList: the pages accumulated so far
    syncToken,  \* GetMyBookList: the cursor for the next page ("" is 0)
    book,       \* Download: the item, and what the server holds for it
    fs,         \* the files at outputPath, outputPath + ".downloading", + ".ade"
    info,       \* Download: (downloadUrl, hasDrm) of __GetDownloadInfo
    wpos,       \* Download: chunks written to the open file, parts completed
    drmCalls,   \* history: the RemoveDrm calls, with their arguments
    bookList,   \* GetBookOrBooks: the entitlements of the library
    productId,  \* GetBookOrBooks: the title asked for ('' is 0: all of them)
    idx,        \* GetBookOrBooks: entitlements the loop has taken
    disk,       \* the files at the paths of each entitlement
    bpc,        \* GetBookOrBooks: where it is
    run,        \* number of GetBookOrBooks runs started
    report,     \* history: the outcome of each entitlement in each run
    result,     \* what GetBookOrBooks returned (0: None, else the item's path),
                \* what CheckActivation returned (0: False, 1: True)
    thr,        \* the request handlers that run concurrently on one user,
                \* each at its position in its own request
    wishlist,   \* the number of pages the vendor reports for the wishlist
    items,      \* GetMyWishList: the items accumulated so far
    currentPageIndex, \* GetMyWishList: the page index of the next request
    asked,      \* history: the page each wishlist request asked the vendor for
    loginpage,  \* the file loginpage_error.html (0: not there)
    listAll,    \* ListBooks: the listAll argument
    rows        \* ListBooks: the rows returned (<<>> before it has returned)

netVars == <<req, rreq, rpc, frames, sent, rsent, refreshes, retval, wire, faults>>
idVars  == <<user, persisted, saves, gen>>
opVars  == <<pc, op, ret, calls, exc>>
\* The state of the operations above the request layer.
syncVars == <<library, fullBookList, syncToken>>
dlVars  == <<book, fs, info, wpos, drmCalls>>
batchVars == <<bookList, productId, idx, disk, bpc, run, report, result>>
concVars == <<thr>>
wishVars == <<wishlist, items, currentPageIndex, asked>>
loginVars == <<loginpage>>
listVars == <<listAll, rows>>
appVars == <<syncVars, dlVars, batchVars, concVars, wishVars, loginVars, listVars>>
vars    == <<user, persisted, saves, gen, req, rreq, rpc, frames, sent, rsent,
             refreshes, retval, wire, faults, exc, pc, op, ret, calls,
             library, fullBookList, syncToken, book, fs, info, wpos, drmCalls,
             bookList, productId, idx, disk, bpc, run, report, result, thr,
             wishlist, items, currentPageIndex, asked, loginpage, listAll, rows>>

----------------------------------------------------------------------------
(* Bounds of the model. *)

\* Operations started in one behaviour of SpecReq.
MaxCalls == 2

\* Error answers and transport failures during one operation of SpecReq:
\* enough for max_retries answers of 403, a 401 and one more.
MaxFaultsReq == 12

\* Error answers and transport failures in one behaviour of SpecSync.
MaxFaultsSync == 2

\* Pages of the largest library of SpecSync.
MaxPages == 3

\* Error answers, transport failures and file-system failures in one
\* behaviour of SpecDownload.
MaxFaultsDownload == 2

\* Chunks of 256 KiB of the longest content.
MaxChunks == 2

\* Parts of the longest audiobook spine.
MaxParts == 2

\* Variants of the longest variant list of SpecResolve.
MaxVariants == 2

\* Error answers and transport failures in one behaviour of SpecResolve.
MaxFaultsResolve == 1

\* Error answers and transport failures in one behaviour of SpecAuth.
MaxFaultsAuth == 2

\* Request handlers that run concurrently on one user in SpecConc.
MaxThreads == 2

\* Requests answered 401 in one behaviour of SpecConc.
MaxFaultsConc == 2

\* Pages of the largest wishlist of SpecWish.
MaxWishPages == 3

\* Error answers and transport failures in one behaviour of SpecWish.
MaxFaultsWish == 1
MaxFaultsLogin == 1
MaxListed == 2

\* Entitlements of the largest library of SpecBatch.
MaxItems == 2

\* GetBookOrBooks runs in one behaviour of SpecRerun.
MaxRuns == 2

\* Error answers, transport failures and file-system failures in one
\* behaviour of SpecBatch.
MaxFaultsBatch == 1

(* Program constants. *)

\* Request.max_retries
max_retries == 10

unauthorized == 401

\* "PageSize" of GetMyWishList
PageSize == 100

forbidden == 403

----------------------------------------------------------------------------
(* settings.User *)

\* AreAuthenticationSettingsSet without the test of the refresh token.
AreAuthenticationSettingsSet_noRefreshToken(u) ==
    u.DeviceId > 0 /\ u.AccessToken > 0

AreAuthenticationSettingsSet(u) ==
    u.DeviceId > 0 /\ u.AccessToken > 0 /\ u.RefreshToken > 0

\* An identity after a successful device authentication.
ReadyUser ==
    [DeviceId |-> 1, SerialNumber |-> 0, AccessToken |-> 1, RefreshToken |-> 1,
     UserId |-> 1, UserKey |-> 1]

----------------------------------------------------------------------------
(* HTTP responses, as copy_http_response keeps them. *)

\* The headers the program reads: x-kobo-sync, x-kobo-synctoken, and the
\* Authorization entry the hook writes.
NoHeaders == [sync |-> "", synctoken |-> 0, Authorization |-> 0]

Response(status, body) == [status |-> status, headers |-> NoHeaders, content |-> body]

\* Request._copy before the first send (None).
NoResponse == Response(0, [kind |-> "none"])

ErrorStatuses == {unauthorized, forbidden, 500}

ErrorBodies == {[kind |-> "errjson"], [kind |-> "nonjson"]}

ErrorResponses == {Response(s, b) : s \in ErrorStatuses, b \in ErrorBodies}

\* What the refresh endpoint may answer with status 200: a token pair of the
\* next generation, of the bearer scheme or not, or one without access token.
RefreshOk(g) ==
    { Response(200, [kind |-> "token", TokenType |-> t,
                     AccessToken |-> a, RefreshToken |-> g + 1])
        : t \in {"Bearer", "Basic"}, a \in {g + 1, 0} }

\* What the device-authentication endpoint may answer with status 200 to a
\* request with the given user key (0: none): as the refresh endpoint, with
\* the UserKey when one was sent, or without it.
DeviceAuthOk(g, userKey) ==
    { Response(200, [kind |-> "token", TokenType |-> t,
                     AccessToken |-> a, RefreshToken |-> g + 1, UserKey |-> k])
        : t \in {"Bearer", "Basic"}, a \in {g + 1, 0}, k \in {0, userKey} }

\* What an endpoint that returns a JSON document answers with status 200.
JsonOk(ep) == { Response(200, [kind |-> "json", ep |-> ep]) }

\* The items of page k of the library.
PageItems(k) == <<2 * k - 1, 2 * k>>

\* What the library-sync endpoint of a library of n pages answers with status
\* 200 to a request with cursor c: the page after the c pages already
\* served, and the cursor of the next request unless this page is the last.
LibraryPage(n, c) ==
    LET k == c + 1 IN
    [status |-> 200,
     headers |-> [NoHeaders EXCEPT !.sync = IF k < n THEN "continue" ELSE "",
                                   !.synctoken = IF k < n THEN k ELSE 0],
     content |-> [kind |-> "page", items |-> IF k <= n THEN PageItems(k) ELSE << >>]]

\* The answers the endpoint may give for that page: the last page may also
\* come with x-kobo-sync: continue and no cursor, or with a cursor and no
\* x-kobo-sync: continue.
LibraryPageAnswers(n, c) ==
    LET p == LibraryPage(n, c) IN
    IF c + 1 = n
      THEN {p, [p EXCEPT !.headers.sync = "continue"], [p EXCEPT !.headers.synctoken = n]}
      ELSE {p}

\* The items of page k of the wishlist (pages are numbered from 0).
WishItems(k) == <<k + 1>>

\* What the wishlist endpoint of a wishlist of n pages answers with status 200
\* to a request for page k: the items of that page and the page count.
WishPage(n, k) ==
    [status |-> 200, headers |-> [sync |-> "", synctoken |-> 0, Authorization |-> 0],
     content |-> [kind |-> "wishlist", Items |-> IF k < n THEN WishItems(k) ELSE << >>,
                  TotalPageCount |-> n]]

\* The page a wishlist request asks for: the PageIndex it carries (held as
\* index + 1 in the request's data), the first page when it carries none.
PageAsked(r) == IF r.data > 0 THEN r.data - 1 ELSE 0

\* What the sign-in page answers with status 200: a page, gzip-compressed or
\* not, with or without the workflow id and the request verification token.
SignInPages ==
    { Response(200, [kind |-> "signin_page", gzip |-> z, workflowId |-> w, token |-> t])
        : z \in BOOLEAN, w \in BOOLEAN, t \in BOOLEAN }

\* What the sign-in form answers with status 200 to the posted credentials: a
\* page with or without the kobo://UserAuthenticated URL (with the userId and
\* the userKey in its query) and with or without a validation-error node.
SignInResults ==
    { Response(200, [kind |-> "signin_result", gzip |-> z, redirect |-> r, errors |-> e,
                     userId |-> 2, userKey |-> 3])
        : z \in BOOLEAN, r \in BOOLEAN, e \in BOOLEAN }

\* A content-URL variant as the program reads it: the keys DrmType, DRMType,
\* UrlFormat ("" when the key is absent) and DownloadUrl, Url (0 when the key
\* is absent or its value empty).
Variant(drmKey, drm, urlKey, url) ==
    [DrmType     |-> IF drmKey = "DrmType" THEN drm ELSE "",
     DRMType     |-> IF drmKey = "DRMType" THEN drm ELSE "",
     UrlFormat   |-> "EPUB3",
     DownloadUrl |-> IF urlKey = "DownloadUrl" THEN url ELSE 0,
     Url         |-> IF urlKey = "Url" THEN url ELSE 0]

\* A list-valued key of a document: absent, or present with its list.
Absent == [present |-> FALSE, list |-> << >>]

Present(list) == [present |-> TRUE, list |-> list]

\* The variant lists of the items of SpecDownload.
VariantLists ==
    { Absent,
      Present(<< >>),
      Present(<<Variant("DRMType", "", "Url", 1)>>),
      Present(<<Variant("DRMType", "KDRM", "Url", 1)>>),
      Present(<<Variant("DrmType", "AdobeDrm", "DownloadUrl", 1)>>),
      Present(<<Variant("DRMType", "KDRM", "Url", 0), Variant("DRMType", "None", "Url", 1)>>),
      Present(<<Variant("DrmType", "KDRM", "Url", 0)>>) }

\* The bytes of an error document, as one chunk.
ErrorBytes == << -1 >>

\* The item Download is called for and what the server holds for it: the
\* variant list (in the entitlement metadata of an audiobook, in the
\* content-access document of an ebook), the content keys, the content in
\* chunks of 256 KiB, and the number of parts of the spine.
Book(isAudiobook, variants, keys, content, spine) ==
    [isAudiobook |-> isAudiobook, variants |-> variants, keys |-> keys,
     content |-> content, spine |-> spine]

DefaultBook == Book(FALSE, Present(<<Variant("DRMType", "", "Url", 1)>>), Absent, <<1>>, 0)

\* The content-access document of the item.
AccessDocument(b) ==
    Response(200, [kind |-> "access", ContentUrls |-> b.variants,
                   DownloadUrls |-> Absent, ContentKeys |-> b.keys])

\* The answers with status 200 to request r.
OkAnswers(r) ==
    CASE r.ep = "refresh"             -> RefreshOk(gen)
      [] r.ep = "auth_device"         -> DeviceAuthOk(gen, r.data)
      [] r.ep = "library_sync"        -> LibraryPageAnswers(library, r.cursor)
      [] r.ep = "user_wishlist"       -> {WishPage(wishlist, PageAsked(r))}
      [] r.ep = "sign_in_page"        -> SignInPages
      [] r.ep = "sign_in"             -> SignInResults
      [] r.ep = "content_access_book" -> {AccessDocument(book)}
      [] r.ep = "content"             -> {Response(200, [kind |-> "bytes", data |-> book.content])}
      [] r.ep = "manifest"            -> {Response(200, [kind |-> "manifest", Spine |-> book.spine])}
      [] r.ep = "part"                -> {Response(200, [kind |-> "bytes", data |-> book.content])}
      [] OTHER                        -> JsonOk(r.ep)

\* json.loads(response['content']) raises on text that is no JSON.
JsonLoads(resp) == IF resp.content.kind = "nonjson" THEN "JSONDecodeError" ELSE "none"

----------------------------------------------------------------------------
(* class Request *)

\* Request.__init__: url, the Authorization header it carries (0: none), the
\* refresh token in its form data (0: none), hooks set or None.
NewRequest(ep, auth, data, hooks) ==
    [ep |-> ep, auth |-> auth, data |-> data, hooks |-> hooks, cursor |-> 0,
     retries |-> 0, copy |-> NoResponse]

NoRequest == NewRequest("none", 0, 0, FALSE)

\* Kobo.__GetHeaderWithAccessToken: "Bearer " + user.AccessToken
GetHeaderWithAccessToken(u) == u.AccessToken

\* AfterResponse with the 403 branch taken for every status from 403 up.
AfterResponse_retryFrom403(r, resp) ==
    LET r1 == [r EXCEPT !.copy = resp] IN
    IF resp.status = 200
      THEN [r |-> r1, next |-> "return"]
    ELSE IF r.hooks /\ resp.status = unauthorized
      THEN [r |-> r1, next |-> "hook"]
    ELSE IF resp.status >= forbidden
      THEN LET r2 == [r1 EXCEPT !.retries = @ + 1] IN
           [r |-> r2, next |-> IF r2.retries < max_retries THEN "retry" ELSE "return"]
    ELSE [r |-> r1, next |-> "return"]

\* AfterResponse with one more retry: the test is retries <= max_retries.
AfterResponse_retryThrough(r, resp) ==
    LET r1 == [r EXCEPT !.copy = resp] IN
    IF resp.status = 200
      THEN [r |-> r1, next |-> "return"]
    ELSE IF r.hooks /\ resp.status = unauthorized
      THEN [r |-> r1, next |-> "hook"]
    ELSE IF resp.status = forbidden
      THEN LET r2 == [r1 EXCEPT !.retries = @ + 1] IN
           [r |-> r2, next |-> IF r2.retries <= max_retries THEN "retry" ELSE "return"]
    ELSE [r |-> r1, next |-> "return"]

\* make_request, from the response (or HTTPError) to the next thing it does:
\* the Request with _copy and retries updated, and where control goes:
\*   "hook"   into ReauthenticationHook past its status test (401, hooks set)
\*   "retry"  the recursive self.make_request() of the 403 branch
\*   "return" return self._copy
AfterResponse(r, resp) ==
    LET r1 == [r EXCEPT !.copy = resp] IN
    IF resp.status = 200
      THEN [r |-> r1, next |-> "return"]
    ELSE IF r.hooks /\ resp.status = unauthorized
      THEN [r |-> r1, next |-> "hook"]
    ELSE IF resp.status = forbidden
      THEN LET r2 == [r1 EXCEPT !.retries = @ + 1] IN
           [r |-> r2, next |-> IF r2.retries < max_retries THEN "retry" ELSE "return"]
    ELSE [r |-> r1, next |-> "return"]

\* The Request object whose make_request is running: the refresh request
\* while __RefreshAuthentication waits for it, the operation's otherwise.
Active == IF \E i \in 1..Len(frames) : frames[i].at = "refresh" THEN "rreq" ELSE "req"

\* A suspended activation: where it waits, and the status of the HTTPError it
\* holds (err.status).
Frame(at, resp) == [at |-> at, err |-> resp.status]

\* The innermost activation waiting for __RefreshAuthentication (0: none).
RefreshFrame ==
    IF Active = "req" THEN 0
    ELSE CHOOSE k \in 1..Len(frames) :
           frames[k].at = "refresh" /\ \A j \in (k+1)..Len(frames) : frames[j].at # "refresh"

Top == frames[Len(frames)]

Pop == SubSeq(frames, 1, Len(frames) - 1)

\* An exception nothing in make_request, the hook or the refresh catches.
Raise(e) ==
    /\ exc' = e
    /\ rpc' = "raised"
    /\ frames' = << >>

\* One send: the Authorization value and form data it carried, whether the
\* Request had its hooks, the status it got, and the identity's access token
\* at that moment.
SendRecord(r, resp) ==
    [ep |-> r.ep, auth |-> r.auth, data |-> r.data, hooks |-> r.hooks,
     status |-> resp.status, token |-> user.AccessToken]

\* make_request: self.opener.open(self.request) and what follows it up to the
\* next send, the hook or the return.
Open ==
    /\ rpc = "open"
    /\ LET r == IF Active = "req" THEN req ELSE rreq IN
       \/ /\ faults > 0
          /\ faults' = faults - 1
          /\ Raise("URLError")
          /\ UNCHANGED <<req, rreq, sent, rsent, gen, retval, wire>>
       \/ \E resp \in OkAnswers(r) \cup (IF faults > 0 THEN ErrorResponses ELSE {}) :
            LET a == AfterResponse(r, resp) IN
            /\ faults' = IF resp.status = 200 THEN faults ELSE faults - 1
            /\ IF Active = "req"
                 THEN /\ req' = a.r /\ rreq' = rreq
                      /\ sent' = Append(sent, SendRecord(r, resp)) /\ rsent' = rsent
                 ELSE /\ rreq' = a.r /\ req' = req
                      /\ rsent' = Append(rsent, SendRecord(r, resp)) /\ sent' = sent
            /\ wire' = IF r.ep = "library_sync" THEN Append(wire, r.cursor) ELSE wire
            /\ gen' = IF resp.content.kind = "token" THEN gen + 1 ELSE gen
            /\ rpc' = CASE a.next = "hook"   -> "hook"
                        [] a.next = "retry"  -> "open"
                        [] OTHER             -> "return"
            /\ frames' = IF a.next = "retry"
                           THEN Append(frames, Frame("retry", resp))
                           ELSE frames
            /\ retval' = IF a.next = "return" THEN a.r.copy ELSE retval
            /\ exc' = exc
    /\ UNCHANGED <<refreshes, user, persisted, saves, pc, op, ret, calls, appVars>>

----------------------------------------------------------------------------
(* Kobo.__RefreshAuthentication and the reauthentication hook *)

\* RefreshRequest with the reauthentication hook set.
RefreshRequest_hooked(u) ==
    NewRequest("refresh", GetHeaderWithAccessToken(u), u.RefreshToken, TRUE)

\* The request __RefreshAuthentication builds: the reauthentication hook is
\* intentionally not set.
RefreshRequest(u) ==
    NewRequest("refresh", GetHeaderWithAccessToken(u), u.RefreshToken, FALSE)

\* ReauthenticationHook on a 401: prep = r.copy(), then __RefreshAuthentication
\* up to request.make_request().
ReauthenticationHook ==
    /\ rpc = "hook"
    /\ refreshes' = refreshes + 1
    /\ rreq' = RefreshRequest(user)
    /\ frames' = Append(frames, Frame("refresh", (IF Active = "req" THEN req ELSE rreq).copy))
    /\ rsent' = << >>
    /\ rpc' = "open"
    /\ UNCHANGED <<req, sent, retval, wire, faults, idVars, opVars, appVars>>

\* RefreshOutcome with the tokens stored before the test of the token type.
RefreshOutcome_storesFirst(u, resp) ==
    IF JsonLoads(resp) # "none"
      THEN [exc |-> JsonLoads(resp), user |-> u, save |-> FALSE]
    ELSE IF resp.content.kind # "token"
      THEN [exc |-> "KeyError", user |-> u, save |-> FALSE]
    ELSE LET u1 == [u EXCEPT !.AccessToken = resp.content.AccessToken,
                             !.RefreshToken = resp.content.RefreshToken] IN
         IF resp.content.TokenType # "Bearer" \/ ~AreAuthenticationSettingsSet(u1)
           THEN [exc |-> "KoboException", user |-> u1, save |-> FALSE]
           ELSE [exc |-> "none", user |-> u1, save |-> TRUE]

\* __RefreshAuthentication from json.loads on: the outcome for the identity u
\* and the response, as [exc, user, save].
RefreshOutcome(u, resp) ==
    IF JsonLoads(resp) # "none"
      THEN [exc |-> JsonLoads(resp), user |-> u, save |-> FALSE]
    ELSE IF resp.content.kind # "token"
      THEN [exc |-> "KeyError", user |-> u, save |-> FALSE]
    ELSE IF resp.content.TokenType # "Bearer"
      THEN [exc |-> "KoboException", user |-> u, save |-> FALSE]
    ELSE LET u1 == [u EXCEPT !.AccessToken = resp.content.AccessToken,
                             !.RefreshToken = resp.content.RefreshToken] IN
         IF ~AreAuthenticationSettingsSet(u1)
           THEN [exc |-> "KoboException", user |-> u1, save |-> FALSE]
           ELSE [exc |-> "none", user |-> u1, save |-> TRUE]

\* The refresh request's make_request returned into __RefreshAuthentication;
\* when that returns, its Request object is gone.
RefreshAuthentication ==
    /\ rpc = "return" /\ frames # << >> /\ Top.at = "refresh"
    /\ LET o == RefreshOutcome(user, retval) IN
       /\ user' = o.user
       /\ persisted' = IF o.save THEN o.user ELSE persisted
       /\ saves' = IF o.save THEN saves + 1 ELSE saves
       /\ IF o.exc # "none"
            THEN /\ Raise(o.exc)
                 /\ UNCHANGED <<rreq, rsent>>
            ELSE /\ frames' = Pop
                 /\ rpc' = "rehook"
                 /\ exc' = exc
                 /\ rreq' = NoRequest
                 /\ rsent' = << >>
    /\ UNCHANGED <<req, sent, refreshes, retval, wire, faults, gen, pc, op, ret, calls, appVars>>

\* The hook after the refresh: the new Authorization value goes into
\* prep['headers'], which is the headers of the response copy, and the
\* Request is left as it was but for hooks = None.
HookPrepare(r, u) ==
    [r EXCEPT !.copy.headers.Authorization = GetHeaderWithAccessToken(u),
              !.hooks = FALSE]

\* The hook resends: prep['request'].make_request()
HookResend ==
    /\ rpc = "rehook"
    /\ LET r == IF Active = "req" THEN req ELSE rreq IN
       /\ IF Active = "req"
            THEN req' = HookPrepare(r, user) /\ rreq' = rreq
            ELSE rreq' = HookPrepare(r, user) /\ req' = req
       /\ frames' = Append(frames, Frame("resend", r.copy))
    /\ rpc' = "open"
    /\ UNCHANGED <<sent, rsent, refreshes, retval, wire, faults, idVars, opVars, appVars>>

\* ReturnedCopy returning the copy of the activation's own response.
ReturnedCopy_own(r, frame) == [r.copy EXCEPT !.status = frame.err]

\* What a make_request activation returns once the call it made has returned:
\* self._copy, whatever its own response was (the status test of the 403
\* branch reads the activation's own err, a 401 after the hook's resend, so
\* nothing is sent from here).
ReturnedCopy(r, frame) == r.copy

\* The nested make_request calls return, each into the activation that made
\* it, down to the outermost activation on this Request.
Unwind ==
    /\ rpc = "return" /\ frames # << >> /\ Top.at \in {"retry", "resend"}
    /\ frames' = SubSeq(frames, 1, RefreshFrame)
    /\ retval' = ReturnedCopy(IF Active = "req" THEN req ELSE rreq, frames[RefreshFrame + 1])
    /\ rpc' = "return"
    /\ UNCHANGED <<req, rreq, sent, rsent, refreshes, wire, faults, idVars, opVars, appVars>>

\* make_request returned to the operation that built the Request.
Returned == rpc = "return" /\ frames = << >>

----------------------------------------------------------------------------
(* The operations that make one authenticated request and return its JSON:  *)
(* __GetContentAccessBook, GetBookInfo, LoadInitializationSettings.         *)

SingleCallOps == {"GetContentAccessBook", "GetBookInfo", "LoadInitializationSettings"}

\* The key of InitializationSettings (or the fixed URL) the operation requests.
Endpoint(o) ==
    CASE o = "GetContentAccessBook"       -> "content_access_book"
      [] o = "GetBookInfo"                -> "book"
      [] o = "LoadInitializationSettings" -> "initialization"
      [] o = "GetMyBookList"              -> "library_sync"
      [] OTHER                            -> "none"

\* Request(url, headers=self.__GetHeaderWithAccessToken(),
\*         hooks=self.__GetReauthenticationHook())
AuthenticatedRequest(ep, u) == NewRequest(ep, GetHeaderWithAccessToken(u), 0, TRUE)

\* request = Request(...); request.make_request() is entered.
StartRequest(r) ==
    /\ req' = r
    /\ rreq' = NoRequest
    /\ rpc' = "open"
    /\ frames' = << >>
    /\ sent' = << >>
    /\ rsent' = << >>
    /\ refreshes' = 0
    /\ retval' = NoResponse

\* What the operation o does with the response it got: the exception it
\* raises ("none": it returns the parsed document).
ParseJson(o, resp) ==
    IF JsonLoads(resp) # "none" THEN JsonLoads(resp)
    ELSE IF o = "LoadInitializationSettings" /\ resp.content.kind # "json"
      THEN "KeyError"       \* jsonResponse["Resources"]
    ELSE "none"

Call ==
    /\ pc \in {"idle", "done", "failed"}
    /\ calls < MaxCalls
    /\ \E o \in SingleCallOps :
         /\ op' = o
         /\ StartRequest(AuthenticatedRequest(Endpoint(o), user))
    /\ pc' = "request"
    /\ calls' = calls + 1
    /\ exc' = "none"
    /\ ret' = NoResponse
    /\ faults' = MaxFaultsReq
    /\ UNCHANGED <<wire, idVars, appVars>>

\* response = request.make_request(); jsonResponse = json.loads(...); return
CallReturn ==
    /\ pc = "request" /\ op \in SingleCallOps
    /\ Returned
    /\ LET e == ParseJson(op, retval) IN
       /\ exc' = e
       /\ pc' = IF e = "none" THEN "done" ELSE "failed"
       /\ ret' = IF e = "none" THEN retval ELSE NoResponse
    /\ rpc' = "idle"
    /\ UNCHANGED <<req, rreq, frames, sent, rsent, refreshes, retval, wire, faults, idVars, op, calls, appVars>>

\* An exception leaves make_request and, uncaught, the operation.
CallRaise ==
    /\ pc = "request" /\ op \in SingleCallOps
    /\ rpc = "raised"
    /\ pc' = "failed"
    /\ rpc' = "idle"
    /\ UNCHANGED <<req, rreq, frames, sent, rsent, refreshes, retval, wire, faults, idVars, op, calls, exc, ret, appVars>>

----------------------------------------------------------------------------
(* SpecReq: authenticated requests of an identity that is AuthenticationReady *)

\* No file at any of the paths.
NoFile == [kind |-> "none"]

File(data) == [kind |-> "file", data |-> data]

\* A directory with its part files, in the order they were created.
Dir(parts) == [kind |-> "dir", parts |-> parts]

NoInfo == [url |-> 0, hasDrm |-> << >>]

\* No download has been started.
NoDownload ==
    /\ fs = [target |-> NoFile, temp |-> NoFile, ade |-> NoFile]
    /\ info = NoInfo
    /\ wpos = 0
    /\ drmCalls = << >>

\* GetBookOrBooks has not been called.
\* No page of a failed login has been written.
NoLogin == loginpage = 0

\* ListBooks has not been called.
NoList == listAll = FALSE /\ rows = << >>

\* No wishlist is being read.
NoWish ==
    /\ wishlist = 0
    /\ items = << >>
    /\ currentPageIndex = 0
    /\ asked = << >>

\* No handler runs beside the operation.
NoThreads == thr = << >>

NoBatch ==
    /\ bookList = << >>
    /\ productId = 0
    /\ idx = 0
    /\ disk = << >>
    /\ bpc = "idle"
    /\ run = 0
    /\ report = << >>
    /\ result = 0

InitNet ==
    /\ req = NoRequest
    /\ rreq = NoRequest
    /\ rpc = "idle"
    /\ frames = << >>
    /\ sent = << >>
    /\ rsent = << >>
    /\ refreshes = 0
    /\ retval = NoResponse
    /\ wire = << >>

InitReq ==
    /\ user = ReadyUser
    /\ persisted = ReadyUser
    /\ saves = 0
    /\ gen = 1
    /\ InitNet
    /\ faults = MaxFaultsReq
    /\ exc = "none"
    /\ pc = "idle"
    /\ op = "none"
    /\ ret = NoResponse
    /\ calls = 0
    /\ library = 0
    /\ fullBookList = << >>
    /\ syncToken = 0
    /\ book = DefaultBook
    /\ NoDownload
    /\ NoBatch
    /\ NoThreads
    /\ NoWish
    /\ NoLogin
    /\ NoList

NextReq ==
    \/ Call
    \/ Open
    \/ ReauthenticationHook
    \/ RefreshAuthentication
    \/ HookResend
    \/ Unwind
    \/ CallReturn
    \/ CallRaise

SpecReq == InitReq /\ [][NextReq]_vars

----------------------------------------------------------------------------
(* Kobo.GetMyBookList and Kobo.__GetMyBookListPage *)

\* An identity that is not AuthenticationReady, one for each empty field.
UnreadyUsers ==
    { [ReadyUser EXCEPT !.DeviceId = 0],
      [ReadyUser EXCEPT !.AccessToken = 0],
      [ReadyUser EXCEPT !.RefreshToken = 0] }

\* What json.loads of an error document adds to a list with +=: its keys.
ErrorItems == << -1 >>

\* GetMyBookList up to the loop: the authentication test, then
\* fullBookList = [] and syncToken = "".
GetMyBookList ==
    /\ pc = "idle"
    /\ op' = "GetMyBookList"
    /\ calls' = calls + 1
    /\ IF ~AreAuthenticationSettingsSet(user)
         THEN /\ exc' = "NotAuthenticatedException"
              /\ pc' = "failed"
              /\ UNCHANGED <<fullBookList, syncToken>>
         ELSE /\ exc' = "none"
              /\ pc' = "page"
              /\ fullBookList' = << >>
              /\ syncToken' = 0
    /\ UNCHANGED <<netVars, idVars, ret, library, dlVars, batchVars, concVars, wishVars, loginVars, listVars>>

\* PageRequest without the x-kobo-synctoken header.
PageRequest_noCursor(u, token) == AuthenticatedRequest("library_sync", u)

\* The request of __GetMyBookListPage: the cursor goes into the
\* x-kobo-synctoken header when it is not empty.
PageRequest(u, token) ==
    [AuthenticatedRequest("library_sync", u) EXCEPT !.cursor = IF token > 0 THEN token ELSE 0]

\* __GetMyBookListPage up to request.make_request()
GetMyBookListPage ==
    /\ pc = "page"
    /\ StartRequest(PageRequest(user, syncToken))
    /\ pc' = "page_wait"
    /\ UNCHANGED <<wire, faults, idVars, op, ret, calls, exc, appVars>>

\* PageResult with the cursor taken whatever x-kobo-sync says.
PageResult_anyToken(resp) ==
    [bookList  |-> IF resp.content.kind = "page" THEN resp.content.items ELSE ErrorItems,
     syncToken |-> resp.headers.synctoken]

\* __GetMyBookListPage after the response: (bookList, syncToken)
PageResult(resp) ==
    [bookList  |-> IF resp.content.kind = "page" THEN resp.content.items ELSE ErrorItems,
     syncToken |-> IF resp.headers.sync = "continue" THEN resp.headers.synctoken ELSE 0]

\* The loop of GetMyBookList after a page: whether it goes on.
Continues(token) == token # 0

\* The page returned: fullBookList += bookList, and the loop ends on an empty
\* cursor.
PageReturn ==
    /\ pc = "page_wait" /\ Returned
    /\ rpc' = "idle"
    /\ IF JsonLoads(retval) # "none"
         THEN /\ exc' = JsonLoads(retval)
              /\ pc' = "failed"
              /\ UNCHANGED <<fullBookList, syncToken>>
         ELSE LET p == PageResult(retval) IN
              /\ fullBookList' = fullBookList \o p.bookList
              /\ syncToken' = p.syncToken
              /\ pc' = IF Continues(p.syncToken) THEN "page" ELSE "done"
              /\ exc' = exc
    /\ UNCHANGED <<req, rreq, frames, sent, rsent, refreshes, retval, wire, faults,
                   idVars, op, ret, calls, library, dlVars, batchVars, concVars, wishVars, loginVars, listVars>>

\* An exception leaves make_request and, uncaught, GetMyBookList.
PageRaise ==
    /\ pc = "page_wait" /\ rpc = "raised"
    /\ pc' = "failed"
    /\ rpc' = "idle"
    /\ UNCHANGED <<req, rreq, frames, sent, rsent, refreshes, retval, wire, faults,
                   idVars, op, ret, calls, exc, appVars>>

----------------------------------------------------------------------------
(* SpecSync: one GetMyBookList against a library of 1..MaxPages pages *)

InitSync ==
    /\ user \in {ReadyUser} \cup UnreadyUsers
    /\ persisted = user
    /\ saves = 0
    /\ gen = 1
    /\ InitNet
    /\ faults = MaxFaultsSync
    /\ exc = "none"
    /\ pc = "idle"
    /\ op = "none"
    /\ ret = NoResponse
    /\ calls = 0
    /\ library \in 1..MaxPages
    /\ fullBookList = << >>
    /\ syncToken = 0
    /\ book = DefaultBook
    /\ NoDownload
    /\ NoBatch
    /\ NoThreads
    /\ NoWish
    /\ NoLogin
    /\ NoList

NextSync ==
    \/ GetMyBookList
    \/ GetMyBookListPage
    \/ PageReturn
    \/ PageRaise
    \/ Open
    \/ ReauthenticationHook
    \/ RefreshAuthentication
    \/ HookResend
    \/ Unwind

SpecSync == InitSync /\ [][NextSync]_vars

----------------------------------------------------------------------------
(* Kobo.__GetDownloadInfo *)

\* The document a response (or the metadata of an audiobook) parses to: the
\* keys the program reads, absent in an error document.
Document(resp) ==
    IF resp.content.kind = "access"
      THEN [ContentUrls |-> resp.content.ContentUrls,
            DownloadUrls |-> resp.content.DownloadUrls,
            ContentKeys |-> resp.content.ContentKeys]
      ELSE [ContentUrls |-> Absent, DownloadUrls |-> Absent, ContentKeys |-> Absent]

\* The AudiobookMetadata of the entitlement, which lists the variants itself.
Metadata(b) == [ContentUrls |-> Absent, DownloadUrls |-> b.variants, ContentKeys |-> Absent]

\* Kobo.__getContentUrls
getContentUrls(doc) ==
    IF doc.DownloadUrls.present THEN doc.DownloadUrls ELSE doc.ContentUrls

IsDrmType(x) == x \in {"KDRM", "AdobeDrm"}

\* hasDrm of a variant: its values of DrmType and DRMType that are a known
\* DRM type, in this order.
HasDrm(v) == SelectSeq(<<v.DrmType, v.DRMType>>, IsDrmType)

\* The value of the first of DownloadUrl, Url that is set (0: neither).
DownloadUrlOf(v) == IF v.DownloadUrl # 0 THEN v.DownloadUrl ELSE v.Url

RECURSIVE FirstUsable_last(_, _)
FirstUsable_last(list, i) ==
    IF i > Len(list) THEN 0
    ELSE IF FirstUsable_last(list, i + 1) # 0 THEN FirstUsable_last(list, i + 1)
    ELSE IF DownloadUrlOf(list[i]) # 0 THEN i
    ELSE 0

RECURSIVE FirstUsable(_, _)
\* The index of the first variant from i on that has a download URL (0: none).
FirstUsable(list, i) ==
    IF i > Len(list) THEN 0
    ELSE IF DownloadUrlOf(list[i]) # 0 THEN i
    ELSE FirstUsable(list, i + 1)

\* __GetDownloadInfo from the variant list on: (download_url, hasDrm), or the
\* exception raised.  The message of the last one reads DRMType and UrlFormat
\* of every variant.
GetDownloadInfo(doc) ==
    LET urls == getContentUrls(doc)
        none == [exc |-> "KoboException", url |-> 0, hasDrm |-> << >>] IN
    IF ~urls.present THEN none
    ELSE IF Len(urls.list) = 0 THEN none
    ELSE LET i == FirstUsable(urls.list, 1) IN
         IF i # 0
           THEN [exc |-> "none", url |-> DownloadUrlOf(urls.list[i]),
                 hasDrm |-> HasDrm(urls.list[i])]
           ELSE IF \A j \in 1..Len(urls.list) :
                       urls.list[j].DRMType # "" /\ urls.list[j].UrlFormat # ""
                  THEN none
                  ELSE [none EXCEPT !.exc = "KeyError"]

RECURSIVE DictOf_firstWins(_, _)
DictOf_firstWins(list, n) ==
    IF n = 0 THEN << >>
    ELSE LET d == DictOf_firstWins(list, n - 1) IN
         [k \in DOMAIN d \cup {list[n].Name} |->
             IF k \in DOMAIN d THEN d[k] ELSE list[n].Value]

RECURSIVE DictOf(_, _)
\* The dict built from the first n entries of a list of Name/Value pairs.
DictOf(list, n) ==
    IF n = 0 THEN << >>
    ELSE LET d == DictOf(list, n - 1) IN
         [k \in DOMAIN d \cup {list[n].Name} |->
             IF k = list[n].Name THEN list[n].Value ELSE d[k]]

\* Kobo.__GetContentKeys
GetContentKeys(doc) ==
    IF ~doc.ContentKeys.present THEN << >>
    ELSE DictOf(doc.ContentKeys.list, Len(doc.ContentKeys.list))

----------------------------------------------------------------------------
(* Kobo.Download *)

\* response['content'] as bytes, in chunks of 256 KiB.
Bytes(resp) == IF resp.content.kind = "bytes" THEN resp.content.data ELSE ErrorBytes

\* The environment makes this step fail.
Fault == faults > 0 /\ faults' = faults - 1

NoFault == faults' = faults

\* An exception is raised inside the try block of Download.
Throw(e) == exc' = e /\ pc' = "except"

\* Download up to the request of __GetDownloadInfo: the content-access call
\* for an ebook, the variant list of the metadata for an audiobook.  An
\* exception here is raised before the try block.
Download ==
    /\ pc = "idle"
    /\ op' = "Download"
    /\ calls' = calls + 1
    /\ IF ~book.isAudiobook
         THEN /\ StartRequest(AuthenticatedRequest("content_access_book", user))
              /\ pc' = "info_wait"
              /\ exc' = "none"
              /\ info' = info
         ELSE LET i == GetDownloadInfo(Metadata(book)) IN
              /\ exc' = i.exc
              /\ pc' = IF i.exc = "none" THEN "fetch" ELSE "failed"
              /\ info' = [url |-> i.url, hasDrm |-> i.hasDrm]
              /\ UNCHANGED <<req, rreq, rpc, frames, sent, rsent, refreshes, retval>>
    /\ UNCHANGED <<wire, faults, idVars, ret, syncVars, batchVars, concVars, wishVars, loginVars, listVars, book, fs, wpos, drmCalls>>

\* __GetContentAccessBook returned into __GetDownloadInfo.
DownloadInfoReturn ==
    /\ pc = "info_wait" /\ Returned
    /\ rpc' = "idle"
    /\ IF JsonLoads(retval) # "none"
         THEN exc' = JsonLoads(retval) /\ pc' = "failed" /\ info' = info
         ELSE LET i == GetDownloadInfo(Document(retval)) IN
              /\ exc' = i.exc
              /\ pc' = IF i.exc = "none" THEN "fetch" ELSE "failed"
              /\ info' = [url |-> i.url, hasDrm |-> i.hasDrm]
    /\ UNCHANGED <<req, rreq, frames, sent, rsent, refreshes, retval, wire, faults,
                   idVars, op, ret, calls, syncVars, batchVars, concVars, wishVars, loginVars, listVars, book, fs, wpos, drmCalls>>

\* An exception leaves the content-access call and, before the try block,
\* Download.
DownloadInfoRaise ==
    /\ pc = "info_wait" /\ rpc = "raised"
    /\ rpc' = "idle"
    /\ pc' = "failed"
    /\ UNCHANGED <<req, rreq, frames, sent, rsent, refreshes, retval, wire, faults,
                   idVars, op, ret, calls, exc, appVars>>

\* The request of __DownloadToFile and of the parts of an audiobook:
\* Request(url, headers=self.headers), no hooks.
ContentRequest(ep) == NewRequest(ep, 0, 0, FALSE)

\* The try block begins: __DownloadToFile or __DownloadAudiobook up to
\* request.make_request().  __DownloadAudiobook builds Request(url) with
\* headers=None, which urllib.request.Request of CPython rejects with an
\* AttributeError; a transport that accepts it sends the request.
Fetch ==
    /\ pc = "fetch"
    /\ IF book.isAudiobook
         THEN \/ /\ StartRequest(ContentRequest("manifest"))
                 /\ pc' = "manifest_wait"
                 /\ exc' = exc
              \/ /\ Throw("AttributeError")
                 /\ UNCHANGED <<req, rreq, rpc, frames, sent, rsent, refreshes, retval>>
         ELSE /\ StartRequest(ContentRequest("content"))
              /\ pc' = "content_wait"
              /\ exc' = exc
    /\ UNCHANGED <<wire, faults, idVars, op, ret, calls, appVars>>

\* An exception leaves make_request inside the try block.
FetchRaise ==
    /\ pc \in {"content_wait", "manifest_wait", "part_wait", "keys_wait"}
    /\ rpc = "raised"
    /\ rpc' = "idle"
    /\ pc' = "except"
    /\ UNCHANGED <<req, rreq, frames, sent, rsent, refreshes, retval, wire, faults,
                   idVars, op, ret, calls, exc, appVars>>

\* __DownloadToFile: open(outputPath, "wb") on the temporary path.
DownloadToFile ==
    /\ pc = "content_wait" /\ Returned
    /\ rpc' = "idle"
    /\ \/ /\ Fault
          /\ Throw("OSError")
          /\ UNCHANGED <<fs, wpos>>
       \/ /\ NoFault
          /\ fs' = [fs EXCEPT !.temp = File(<< >>)]
          /\ wpos' = 0
          /\ pc' = "write"
          /\ exc' = exc
    /\ UNCHANGED <<req, rreq, frames, sent, rsent, refreshes, retval, wire,
                   idVars, op, ret, calls, syncVars, batchVars, concVars, wishVars, loginVars, listVars, book, info, drmCalls>>

\* Write with the chunk going to the file at the target path as well.
Write_toTarget(f, chunk) ==
    [f EXCEPT !.temp.data = Append(@, chunk), !.target = File(Append(f.temp.data, chunk))]

\* f.write(chunk) on the file opened at the temporary path.
Write(f, chunk) == [f EXCEPT !.temp.data = Append(@, chunk)]

\* __DownloadToFile: one f.write(chunk), or the end of the loop.
WriteChunk ==
    /\ pc = "write"
    /\ IF wpos < Len(Bytes(retval))
         THEN \/ /\ Fault
                 /\ Throw("OSError")
                 /\ UNCHANGED <<fs, wpos>>
              \/ /\ NoFault
                 /\ fs' = Write(fs, Bytes(retval)[wpos + 1])
                 /\ wpos' = wpos + 1
                 /\ UNCHANGED <<pc, exc>>
         ELSE /\ pc' = "drm"
              /\ UNCHANGED <<fs, wpos, exc, faults>>
    /\ UNCHANGED <<req, rreq, rpc, frames, sent, rsent, refreshes, retval, wire,
                   idVars, op, ret, calls, syncVars, batchVars, concVars, wishVars, loginVars, listVars, book, info, drmCalls>>

\* What KoboDrmRemover writes for an input: another byte string of the same
\* length.
Decrypt(data) == [i \in 1..Len(data) |-> data[i] + 100]

\* KoboDrmRemover.RemoveDrm(inputPath, outputPath, contentKeys): the output
\* file it leaves and whether it raised.  It fails on a missing input; it may
\* fail on an empty key map or when the environment makes it (fail), and then
\* leaves the output as it was or partially written.
RemoveDrm(input, output, contentKeys, fail) ==
    LET failures == {[exc |-> "DrmError", output |-> o] : o \in {output, File(<< >>)}} IN
    IF input.kind # "file" THEN {[exc |-> "DrmError", output |-> output]}
    ELSE IF fail THEN failures
    ELSE {[exc |-> "none", output |-> File(Decrypt(input.data))]}
         \cup (IF DOMAIN contentKeys = {} THEN failures ELSE {})

RemoveTemp_keeps(f) == f

\* os.remove(temporaryOutputPath) in the try block.
RemoveTemp(f) == [f EXCEPT !.temp = NoFile]

Rename_copies(f) == [f EXCEPT !.target = f.temp]

\* os.rename(temporaryOutputPath, outputPath)
Rename(f) == [f EXCEPT !.target = f.temp, !.temp = NoFile]

\* The branches of Download after the content is on disk, up to the end of
\* the try block or to the second content-access request.
DrmBranch ==
    /\ pc = "drm"
    /\ IF Len(info.hasDrm) > 0
         THEN IF info.hasDrm[1] = "AdobeDrm"
                THEN /\ IF fs.temp.kind # "file"
                          THEN Throw("FileNotFoundError") /\ NoFault /\ fs' = fs
                          ELSE \/ /\ Fault
                                  /\ Throw("OSError")
                                  /\ \E a \in {fs.ade, File(<< >>)} : fs' = [fs EXCEPT !.ade = a]
                               \/ /\ NoFault
                                  /\ fs' = RemoveTemp([fs EXCEPT !.ade = File(fs.temp.data)])
                                  /\ pc' = "done"
                                  /\ exc' = exc
                     /\ UNCHANGED <<req, rreq, rpc, frames, sent, rsent, refreshes, retval>>
                ELSE /\ StartRequest(AuthenticatedRequest("content_access_book", user))
                     /\ pc' = "keys_wait"
                     /\ UNCHANGED <<fs, exc, faults>>
         ELSE /\ IF ~book.isAudiobook
                   THEN \/ /\ Fault
                           /\ Throw("OSError")
                           /\ fs' = fs
                        \/ /\ NoFault
                           /\ fs' = Rename(fs)
                           /\ pc' = "done"
                           /\ exc' = exc
                   ELSE /\ pc' = "done"
                        /\ UNCHANGED <<fs, exc, faults>>
              /\ UNCHANGED <<req, rreq, rpc, frames, sent, rsent, refreshes, retval>>
    /\ UNCHANGED <<wire, idVars, op, ret, calls, syncVars, batchVars, concVars, wishVars, loginVars, listVars, book, info, wpos, drmCalls>>

\* KoboDrmRemover(self.user.DeviceId, self.user.UserId) and the arguments of
\* its RemoveDrm(temporaryOutputPath, outputPath, contentKeys); input is the
\* file at the input path at that moment.
DrmCall(u, f, contentKeys) ==
    [DeviceId |-> u.DeviceId, UserId |-> u.UserId,
     inputPath |-> "temp", outputPath |-> "target",
     input |-> f.temp, contentKeys |-> contentKeys]

\* The second content-access call returned: __GetContentKeys, RemoveDrm and
\* os.remove of the temporary file.
DrmRemove ==
    /\ pc = "keys_wait" /\ Returned
    /\ rpc' = "idle"
    /\ IF JsonLoads(retval) # "none"
         THEN /\ Throw(JsonLoads(retval))
              /\ NoFault
              /\ UNCHANGED <<fs, drmCalls>>
         ELSE LET contentKeys == GetContentKeys(Document(retval)) IN
              /\ drmCalls' = Append(drmCalls, DrmCall(user, fs, contentKeys))
              /\ \E fail \in BOOLEAN :
                   /\ IF fail THEN Fault ELSE NoFault
                   /\ \E o \in RemoveDrm(fs.temp, fs.target, contentKeys, fail) :
                        IF o.exc # "none"
                          THEN Throw(o.exc) /\ fs' = [fs EXCEPT !.target = o.output]
                          ELSE /\ fs' = RemoveTemp([fs EXCEPT !.target = o.output])
                               /\ pc' = "done"
                               /\ exc' = exc
    /\ UNCHANGED <<req, rreq, frames, sent, rsent, refreshes, retval, wire,
                   idVars, op, ret, calls, syncVars, batchVars, concVars, wishVars, loginVars, listVars, book, info, wpos>>

RemoveIfFile_never(f) == f

\* os.path.isfile(path) and os.remove(path) of the except block.
RemoveIfFile(f) == IF f.kind = "file" THEN NoFile ELSE f

\* The except block: both paths are removed when they are files, and the
\* exception is raised again.
DownloadExcept ==
    /\ pc = "except"
    /\ fs' = [fs EXCEPT !.temp = RemoveIfFile(@), !.target = RemoveIfFile(@)]
    /\ pc' = "failed"
    /\ UNCHANGED <<netVars, idVars, op, ret, calls, exc, syncVars, batchVars, concVars, wishVars, loginVars, listVars, book, info, wpos, drmCalls>>

\* __DownloadAudiobook after the manifest request: os.mkdir unless the
\* directory is there, then data['Spine'].  response['content'] is the body
\* as read from the socket: indexing bytes raises a TypeError, a body the
\* transport hands over parsed yields the spine.
DownloadAudiobook ==
    /\ pc = "manifest_wait" /\ Returned
    /\ rpc' = "idle"
    /\ \/ /\ fs.target.kind # "dir"
          /\ Fault
          /\ Throw("OSError")
          /\ UNCHANGED <<fs, wpos, ret>>
       \/ /\ NoFault
          /\ fs' = [fs EXCEPT !.target = IF @.kind = "dir" THEN @ ELSE Dir(<< >>)]
          /\ wpos' = 0
          /\ ret' = retval
          /\ IF retval.content.kind = "manifest"
               THEN \/ pc' = "part" /\ exc' = exc
                    \/ Throw("TypeError")
               ELSE Throw("TypeError")
    /\ UNCHANGED <<req, rreq, frames, sent, rsent, refreshes, retval, wire,
                   idVars, op, calls, syncVars, batchVars, concVars, wishVars, loginVars, listVars, book, info, drmCalls>>

\* The loop over the spine: the request of the next part, or its end.
NextPart ==
    /\ pc = "part"
    /\ IF wpos < ret.content.Spine
         THEN /\ StartRequest(ContentRequest("part"))
              /\ pc' = "part_wait"
         ELSE /\ pc' = "drm"
              /\ UNCHANGED <<req, rreq, rpc, frames, sent, rsent, refreshes, retval>>
    /\ UNCHANGED <<wire, faults, idVars, op, ret, calls, exc, appVars>>

\* One part of the spine: open(filePath, "wb") and the writes of its chunks.
\* A failure leaves the part file absent or partially written.
WritePart ==
    /\ pc = "part_wait" /\ Returned
    /\ rpc' = "idle"
    /\ \/ /\ Fault
          /\ Throw("OSError")
          /\ \E n \in 0..(Len(Bytes(retval)) - 1) : \E created \in BOOLEAN :
               fs' = IF created
                       THEN [fs EXCEPT !.target.parts = Append(@, SubSeq(Bytes(retval), 1, n))]
                       ELSE fs
          /\ wpos' = wpos
       \/ /\ NoFault
          /\ fs' = [fs EXCEPT !.target.parts = Append(@, Bytes(retval))]
          /\ wpos' = wpos + 1
          /\ pc' = "part"
          /\ exc' = exc
    /\ UNCHANGED <<req, rreq, frames, sent, rsent, refreshes, retval, wire,
                   idVars, op, ret, calls, syncVars, batchVars, concVars, wishVars, loginVars, listVars, book, info, drmCalls>>

\* The contents of SpecDownload: 1..n chunks, chunk i being i.
Content(n) == [i \in 1..n |-> i]

\* The key lists of the content-access document.
KeyLists ==
    { Absent,
      Present(<<[Name |-> 1, Value |-> 7]>>),
      Present(<<[Name |-> 1, Value |-> 7], [Name |-> 2, Value |-> 8], [Name |-> 1, Value |-> 9]>>) }

\* The file an earlier download left at the target path.
OldFile == File(<<0>>)

\* The identity of a logged-in user.
LoggedInUser == [ReadyUser EXCEPT !.UserId = 2, !.UserKey = 3]

\* The items Download is called for.
Books ==
    {Book(FALSE, v, k, Content(n), 0) : v \in VariantLists, k \in KeyLists, n \in 1..MaxChunks}
    \cup {Book(TRUE, v, Absent, Content(1), n) : v \in VariantLists, n \in 1..MaxParts}

\* An authenticated session, any item, and a target path that is free or
\* taken by an earlier download (a single-title download does not test it).
InitDownload ==
    /\ user = LoggedInUser
    /\ persisted = LoggedInUser
    /\ saves = 0
    /\ gen = 1
    /\ InitNet
    /\ faults = MaxFaultsDownload
    /\ exc = "none"
    /\ pc = "idle"
    /\ op = "none"
    /\ ret = NoResponse
    /\ calls = 0
    /\ library = 0
    /\ fullBookList = << >>
    /\ syncToken = 0
    /\ book \in Books
    /\ \E old \in {NoFile, IF book.isAudiobook THEN Dir(<< >>) ELSE OldFile} :
         fs = [target |-> old, temp |-> NoFile, ade |-> NoFile]
    /\ info = NoInfo
    /\ wpos = 0
    /\ drmCalls = << >>
    /\ NoBatch
    /\ NoThreads
    /\ NoWish
    /\ NoLogin
    /\ NoList

NextDownload ==
    \/ Download
    \/ DownloadInfoReturn
    \/ DownloadInfoRaise
    \/ Fetch
    \/ FetchRaise
    \/ DownloadToFile
    \/ WriteChunk
    \/ DrmBranch
    \/ DrmRemove
    \/ DownloadExcept
    \/ DownloadAudiobook
    \/ NextPart
    \/ WritePart
    \/ Open
    \/ ReauthenticationHook
    \/ RefreshAuthentication
    \/ HookResend
    \/ Unwind

SpecDownload == InitDownload /\ [][NextDownload]_vars


----------------------------------------------------------------------------
(* Kobo.__GetDownloadInfo over the variant lists a server can send *)

\* The variants at position i of a list: a DRM type under one of the two keys
\* or under none, and the URL i under one of the two keys or under none.
VariantsAt(i) ==
    { Variant(dk[1], dk[2], uk, i) :
        dk \in { <<"none", "">>, <<"DrmType", "KDRM">>, <<"DRMType", "KDRM">>,
                 <<"DrmType", "AdobeDrm">>, <<"DRMType", "AdobeDrm">>, <<"DRMType", "None">> },
        uk \in {"none", "DownloadUrl", "Url"} }

\* The lists of n variants.
VariantListsOf(n) ==
    { l \in [1..n -> UNION {VariantsAt(i) : i \in 1..n}] : \A i \in 1..n : l[i] \in VariantsAt(i) }

\* The items of SpecResolve.
ResolveBooks ==
    { Book(a, v, Absent, Content(1), 1) :
        a \in BOOLEAN,
        v \in {Absent} \cup {Present(l) : l \in UNION {VariantListsOf(n) : n \in 0..MaxVariants}} }

InitResolve ==
    /\ user = LoggedInUser
    /\ persisted = LoggedInUser
    /\ saves = 0
    /\ gen = 1
    /\ InitNet
    /\ faults = MaxFaultsResolve
    /\ exc = "none"
    /\ pc = "idle"
    /\ op = "none"
    /\ ret = NoResponse
    /\ calls = 0
    /\ library = 0
    /\ fullBookList = << >>
    /\ syncToken = 0
    /\ book \in ResolveBooks
    /\ NoDownload
    /\ NoBatch
    /\ NoThreads
    /\ NoWish
    /\ NoLogin
    /\ NoList

\* Download up to its try block.
NextResolve ==
    \/ Download
    \/ DownloadInfoReturn
    \/ DownloadInfoRaise
    \/ Open
    \/ ReauthenticationHook
    \/ RefreshAuthentication
    \/ HookResend
    \/ Unwind

SpecResolve == InitResolve /\ [][NextResolve]_vars

----------------------------------------------------------------------------
(* actions.GetBookOrBooks *)

\* The kinds of entitlement of SpecBatch.
ItemKinds == {"plain", "kdrm", "adobe", "audio", "archived", "unavailable", "subscription", "none"}

\* What the server holds for an entitlement of a kind.
BookOf(kind) ==
    CASE kind = "plain" -> Book(FALSE, Present(<<Variant("DRMType", "", "Url", 1)>>), Absent, Content(1), 0)
      [] kind = "kdrm"  -> Book(FALSE, Present(<<Variant("DRMType", "KDRM", "Url", 1)>>),
                                Present(<<[Name |-> 1, Value |-> 7]>>), Content(1), 0)
      [] kind = "adobe" -> Book(FALSE, Present(<<Variant("DrmType", "AdobeDrm", "DownloadUrl", 1)>>),
                                Absent, Content(1), 0)
      [] kind = "audio" -> Book(TRUE, Present(<<Variant("DRMType", "", "Url", 1)>>), Absent, Content(1), 1)
      [] OTHER          -> Book(FALSE, Present(<< >>), Absent, Content(1), 0)

\* An element of the book list: whether it has a NewEntitlement, which
\* metadata key that has (type), IsRemoved of its BookEntitlement or
\* AudiobookEntitlement, the RevisionId of the metadata, and the server's data.
\* Title, RevisionId and ContributorRoles are taken to be present, and the
\* file names made of them to differ between entitlements.
Entitlement(kind, id) ==
    [NewEntitlement |-> kind # "none",
     type |-> CASE kind = "audio"        -> "audiobook"
                [] kind = "subscription" -> "subscription"
                [] kind = "none"         -> "unknown"
                [] OTHER                 -> "ebook",
     IsRemoved |-> kind = "archived",
     RevisionId |-> id,
     book |-> BookOf(kind)]

\* __IsBookArchived
IsBookArchived(e) == e.IsRemoved

\* os.path.exists(path)
Exists(f) == f.kind # "none"

\* "when downloading ALL books, skip books we've downloaded before"
SkipExisting(p, f) == p = 0 /\ Exists(f.target)

IsArchivedSkip_never(e) == FALSE

\* "Skip archived books."
IsArchivedSkip(e) == IsBookArchived(e)

\* The body of the loop up to the try statement: the skip the entitlement
\* takes ("download": none).
LoopOutcome(e, p, f) ==
    IF ~e.NewEntitlement THEN "skip_none"
    ELSE IF e.type = "unknown" THEN "skip_unknown"
    ELSE IF e.type = "subscription" THEN "skip_subscription"
    ELSE IF SkipExisting(p, f) THEN "skip_existing"
    ELSE IF p # 0 /\ p # e.RevisionId THEN "skip_other"
    ELSE IF IsArchivedSkip(e) THEN "skip_archived"
    ELSE "download"

\* The report with the outcome of entitlement i added: what became of it, and
\* the exception Download raised for it ("none": it was not called or
\* returned).
Record(i, outcome, e) ==
    Append(report, [run |-> run, item |-> i, outcome |-> outcome, exc |-> e])

\* GetBookOrBooks up to the loop: Kobo(user), LoadInitializationSettings and
\* GetMyBookList, which raise or yield the library's list.
GetBookOrBooks ==
    /\ bpc = "idle"
    /\ run' = run + 1
    /\ idx' = 0
    /\ result' = 0
    /\ \/ /\ Fault
          /\ \E e \in {"URLError", "JSONDecodeError", "KeyError"} : exc' = e
          /\ bpc' = "raised"
       \/ /\ NoFault
          /\ exc' = "none"
          /\ bpc' = "loop"
    /\ UNCHANGED <<req, rreq, rpc, frames, sent, rsent, refreshes, retval, wire,
                   idVars, pc, op, ret, calls, syncVars, dlVars,
                   concVars, wishVars, loginVars, listVars, bookList, productId, disk, report>>

\* One pass of the loop up to kobo.Download, or the end of the loop.
NextEntitlement ==
    /\ bpc = "loop"
    /\ IF idx = Len(bookList)
         THEN /\ bpc' = "returned"
              /\ result' = 0
              /\ UNCHANGED <<idx, report, pc, exc, dlVars>>
         ELSE LET i == idx + 1
                  o == LoopOutcome(bookList[i], productId, disk[i]) IN
              /\ idx' = i
              /\ result' = result
              /\ IF o = "download"
                   THEN /\ bpc' = "download"
                        /\ pc' = "idle"
                        /\ exc' = "none"
                        /\ book' = bookList[i].book
                        /\ fs' = disk[i]
                        /\ info' = NoInfo
                        /\ wpos' = 0
                        /\ UNCHANGED <<report, drmCalls>>
                   ELSE /\ bpc' = "loop"
                        /\ report' = Record(i, o, "none")
                        /\ UNCHANGED <<pc, exc, dlVars>>
    /\ UNCHANGED <<netVars, idVars, op, ret, calls, syncVars,
                   concVars, wishVars, loginVars, listVars, bookList, productId, disk, run>>

Reported_singleToo(e, p) == e = "KoboException"

\* except KoboException as e, unless productId makes it raise e: the failure
\* is reported on the console and the loop goes on.
Reported(e, p) == e = "KoboException" /\ p = 0

\* kobo.Download returned or raised: the except clause and the return of a
\* single title.
AfterDownload ==
    /\ bpc = "download" /\ pc \in {"done", "failed"}
    /\ pc' = "batch"
    /\ disk' = [disk EXCEPT ![idx] = fs]
    /\ IF pc = "failed"
         THEN IF Reported(exc, productId)
                THEN /\ report' = Record(idx, "failed", exc)
                     /\ bpc' = "loop"
                     /\ result' = result
                ELSE /\ report' = Record(idx, "raised", exc)
                     /\ bpc' = "raised"
                     /\ result' = result
         ELSE /\ report' = Record(idx, "downloaded", "none")
              /\ IF productId # 0
                   THEN bpc' = "returned" /\ result' = idx
                   ELSE bpc' = "loop" /\ result' = result
    /\ UNCHANGED <<netVars, idVars, op, ret, calls, exc, syncVars, dlVars,
                   concVars, wishVars, loginVars, listVars, bookList, productId, idx, run>>

\* The libraries of SpecBatch: entitlement i has RevisionId i.
Libraries ==
    UNION {[1..n -> ItemKinds] : n \in 1..MaxItems}

InitBatch ==
    /\ user = LoggedInUser
    /\ persisted = LoggedInUser
    /\ saves = 0
    /\ gen = 1
    /\ InitNet
    /\ faults = MaxFaultsBatch
    /\ exc = "none"
    /\ pc = "batch"
    /\ op = "none"
    /\ ret = NoResponse
    /\ calls = 0
    /\ library = 0
    /\ fullBookList = << >>
    /\ syncToken = 0
    /\ book = DefaultBook
    /\ NoDownload
    /\ NoThreads
    /\ NoWish
    /\ NoLogin
    /\ NoList
    /\ \E kinds \in Libraries :
         /\ bookList = [i \in 1..Len(kinds) |-> Entitlement(kinds[i], i)]
         /\ disk = [i \in 1..Len(kinds) |-> [target |-> NoFile, temp |-> NoFile, ade |-> NoFile]]
         /\ productId \in 0..Len(kinds)
    /\ idx = 0
    /\ bpc = "idle"
    /\ run = 0
    /\ report = << >>
    /\ result = 0

NextBatch ==
    \/ GetBookOrBooks
    \/ NextEntitlement
    \/ AfterDownload
    \/ NextDownload

SpecBatch == InitBatch /\ [][NextBatch]_vars

\* The batch download is invoked again, in a new process, on the same library
\* and output directory.
Again ==
    /\ bpc = "returned" /\ productId = 0
    /\ run < MaxRuns
    /\ bpc' = "idle"
    /\ UNCHANGED <<netVars, idVars, opVars, syncVars, dlVars,
                   concVars, wishVars, loginVars, listVars, bookList, productId, idx, disk, run, report, result>>

NextRerun ==
    \/ NextBatch
    \/ Again

SpecRerun == InitBatch /\ [][NextRerun]_vars

----------------------------------------------------------------------------
(* Kobo.GetMyWishList *)

\* GetMyWishList up to the loop: items = [] and currentPageIndex = 0.
GetMyWishList ==
    /\ pc = "idle"
    /\ op' = "GetMyWishList"
    /\ calls' = calls + 1
    /\ exc' = "none"
    /\ pc' = "wish"
    /\ items' = << >>
    /\ currentPageIndex' = 0
    /\ UNCHANGED <<netVars, idVars, ret, syncVars, dlVars, batchVars, concVars, loginVars, listVars, wishlist, asked>>

\* params of GetMyWishList
WishParams(index) == [PageIndex |-> index, PageSize |-> PageSize]

\* The request of the loop body: Request(url, headers=headers, hooks=hooks).
\* params is built and not given to the Request, which so carries no
\* PageIndex and no PageSize.
WishRequest(u, params) == AuthenticatedRequest("user_wishlist", u)

\* The loop body up to request.make_request()
WishPageRequest ==
    /\ pc = "wish"
    /\ LET r == WishRequest(user, WishParams(currentPageIndex)) IN
       /\ StartRequest(r)
       /\ asked' = Append(asked, PageAsked(r))
    /\ pc' = "wish_wait"
    /\ UNCHANGED <<wire, faults, idVars, op, ret, calls, exc, syncVars, dlVars, batchVars,
                   concVars, loginVars, listVars, wishlist, items, currentPageIndex>>

WishContinues_throughTotal(index, total) == index <= total

\* The end of the loop body: it goes on unless
\* currentPageIndex >= wishList["TotalPageCount"].
WishContinues(index, total) == index < total

\* The loop body after the response: json.loads, items.extend(wishList["Items"]),
\* currentPageIndex += 1 and the test of the page count.
WishPageReturn ==
    /\ pc = "wish_wait" /\ Returned
    /\ rpc' = "idle"
    /\ IF JsonLoads(retval) # "none" \/ retval.content.kind # "wishlist"
         THEN /\ exc' = IF JsonLoads(retval) # "none" THEN JsonLoads(retval) ELSE "KeyError"
              /\ pc' = "failed"
              /\ UNCHANGED <<items, currentPageIndex>>
         ELSE /\ items' = items \o retval.content.Items
              /\ currentPageIndex' = currentPageIndex + 1
              /\ pc' = IF WishContinues(currentPageIndex + 1, retval.content.TotalPageCount)
                         THEN "wish" ELSE "done"
              /\ exc' = exc
    /\ UNCHANGED <<req, rreq, frames, sent, rsent, refreshes, retval, wire, faults,
                   idVars, op, ret, calls, syncVars, dlVars, batchVars, concVars, loginVars, listVars, wishlist, asked>>

\* An exception leaves make_request and, uncaught, GetMyWishList.
WishRaise ==
    /\ pc = "wish_wait" /\ rpc = "raised"
    /\ pc' = "failed"
    /\ rpc' = "idle"
    /\ UNCHANGED <<req, rreq, frames, sent, rsent, refreshes, retval, wire, faults,
                   idVars, op, ret, calls, exc, appVars>>

\* One GetMyWishList against a wishlist of 0..MaxWishPages pages.
InitWish ==
    /\ user = LoggedInUser
    /\ persisted = LoggedInUser
    /\ saves = 0
    /\ gen = 1
    /\ InitNet
    /\ faults = MaxFaultsWish
    /\ exc = "none"
    /\ pc = "idle"
    /\ op = "none"
    /\ ret = NoResponse
    /\ calls = 0
    /\ library = 0
    /\ fullBookList = << >>
    /\ syncToken = 0
    /\ book = DefaultBook
    /\ NoDownload
    /\ NoBatch
    /\ NoThreads
    /\ wishlist \in 0..MaxWishPages
    /\ items = << >>
    /\ currentPageIndex = 0
    /\ asked = << >>
    /\ NoLogin
    /\ NoList

NextWish ==
    \/ GetMyWishList
    \/ WishPageRequest
    \/ WishPageReturn
    \/ WishRaise
    \/ Open
    \/ ReauthenticationHook
    \/ RefreshAuthentication
    \/ HookResend
    \/ Unwind

SpecWish == InitWish /\ [][NextWish]_vars

----------------------------------------------------------------------------
(* Kobo.AuthenticateDevice, actions.Login, InitiateLogin, CheckActivation *)

\* User(): every field empty.
NewUser ==
    [DeviceId |-> 0, SerialNumber |-> 0, AccessToken |-> 0, RefreshToken |-> 0,
     UserId |-> 0, UserKey |-> 0]

\* AuthenticateDevice: without a device id, a new one and no tokens.
NewDevice(u) ==
    IF u.DeviceId = 0
      THEN [u EXCEPT !.DeviceId = 1, !.AccessToken = 0, !.RefreshToken = 0]
      ELSE u

\* The request of AuthenticateDevice: no Authorization, the user key in the
\* form data when one is given, no hooks.
DeviceAuthRequest(userKey) == NewRequest("auth_device", 0, userKey, FALSE)

DeviceAuthOutcome_unchecked(u, userKey, resp) ==
    IF JsonLoads(resp) # "none"
      THEN [exc |-> JsonLoads(resp), user |-> u, save |-> FALSE]
    ELSE IF resp.content.kind # "token"
      THEN [exc |-> "KeyError", user |-> u, save |-> FALSE]
    ELSE [exc |-> "none",
          user |-> [u EXCEPT !.AccessToken = resp.content.AccessToken,
                             !.RefreshToken = resp.content.RefreshToken],
          save |-> TRUE]

\* AuthenticateDevice from json.loads on: the outcome for the identity u, the
\* user key given and the response, as [exc, user, save].
DeviceAuthOutcome(u, userKey, resp) ==
    IF JsonLoads(resp) # "none"
      THEN [exc |-> JsonLoads(resp), user |-> u, save |-> FALSE]
    ELSE IF resp.content.kind # "token"
      THEN [exc |-> "KeyError", user |-> u, save |-> FALSE]
    ELSE IF resp.content.TokenType # "Bearer"
      THEN [exc |-> "KoboException", user |-> u, save |-> FALSE]
    ELSE LET u1 == [u EXCEPT !.AccessToken = resp.content.AccessToken,
                             !.RefreshToken = resp.content.RefreshToken] IN
         IF ~AreAuthenticationSettingsSet(u1)
           THEN [exc |-> "KoboException", user |-> u1, save |-> FALSE]
         ELSE IF userKey = 0
           THEN [exc |-> "none", user |-> u1, save |-> TRUE]
         ELSE IF resp.content.UserKey = 0       \* jsonResponse["UserKey"]
           THEN [exc |-> "KeyError", user |-> u1, save |-> FALSE]
         ELSE [exc |-> "none", user |-> [u1 EXCEPT !.UserKey = resp.content.UserKey],
               save |-> TRUE]

\* AuthenticateDevice(userKey) is entered by the identity u, up to
\* request.make_request().
AuthenticateDevice(u, userKey) ==
    /\ user' = NewDevice(u)
    /\ StartRequest(DeviceAuthRequest(userKey))
    /\ pc' = "auth_wait"
    /\ exc' = "none"

\* actions.Login: Kobo(user), kobo.AuthenticateDevice()
Login ==
    /\ pc = "idle"
    /\ op' = "Login"
    /\ AuthenticateDevice(user, 0)
    /\ UNCHANGED <<wire, faults, persisted, saves, gen, ret, calls, appVars>>

\* The activation the vendor completes: the identity it reports.
VendorIdentity == [UserId |-> 2, UserKey |-> 3]

\* Kobo.__ActivateOnWeb: the activation page yields the polling URL and the
\* code, or the call fails.
ActivateOnWeb(fail) == IF fail THEN {"URLError", "KoboException"} ELSE {"none"}

\* Kobo.__CheckActivation(check_url): the identity of a completed activation,
\* or the exception of a call that fails or finds the activation incomplete.
ActivationResult(fail) ==
    IF fail THEN {[exc |-> e, identity |-> VendorIdentity] : e \in {"URLError", "KoboException"}}
    ELSE {[exc |-> "none", identity |-> VendorIdentity]}

\* actions.InitiateLogin
InitiateLogin ==
    /\ pc = "idle"
    /\ op' = "InitiateLogin"
    /\ \E fail \in BOOLEAN :
         /\ IF fail THEN Fault ELSE NoFault
         /\ \E e \in ActivateOnWeb(fail) :
              /\ exc' = e
              /\ pc' = IF e = "none" THEN "activation" ELSE "failed"
    /\ UNCHANGED <<req, rreq, rpc, frames, sent, rsent, refreshes, retval, wire,
                   idVars, ret, calls, appVars>>

\* actions.CheckActivation up to the request of AuthenticateDevice(user_key);
\* except Exception: return False.
CheckActivation ==
    /\ pc = "activation"
    /\ op' = "CheckActivation"
    /\ \E fail \in BOOLEAN :
         /\ IF fail THEN Fault ELSE NoFault
         /\ \E a \in ActivationResult(fail) :
              IF a.exc # "none"
                THEN /\ pc' = "done"
                     /\ result' = 0
                     /\ exc' = "none"
                     /\ UNCHANGED <<user, req, rreq, rpc, frames, sent, rsent, refreshes, retval>>
                ELSE /\ AuthenticateDevice([user EXCEPT !.UserId = a.identity.UserId],
                                           a.identity.UserKey)
                     /\ result' = result
    /\ UNCHANGED <<wire, persisted, saves, gen, ret, calls, syncVars, dlVars,
                   concVars, wishVars, loginVars, listVars, bookList, productId, idx, disk, bpc, run, report>>

\* AuthenticateDevice from the response on, and what its caller does next:
\* kobo.LoadInitializationSettings() up to its request.
AuthenticateDeviceReturn ==
    /\ pc = "auth_wait" /\ Returned
    /\ LET o == DeviceAuthOutcome(user, req.data, retval) IN
       /\ user' = o.user
       /\ persisted' = IF o.save THEN o.user ELSE persisted
       /\ saves' = IF o.save THEN saves + 1 ELSE saves
       /\ IF o.exc # "none"
            THEN /\ rpc' = "idle"
                 /\ IF op = "CheckActivation"
                      THEN pc' = "done" /\ result' = 0 /\ exc' = "none"
                      ELSE pc' = "failed" /\ result' = result /\ exc' = o.exc
                 /\ UNCHANGED <<req, rreq, frames, sent, rsent, refreshes, retval>>
            ELSE /\ StartRequest(AuthenticatedRequest("initialization", o.user))
                 /\ pc' = "init_wait"
                 /\ UNCHANGED <<exc, result>>
    /\ UNCHANGED <<wire, faults, gen, op, ret, calls, syncVars, dlVars,
                   concVars, wishVars, loginVars, listVars, bookList, productId, idx, disk, bpc, run, report>>

\* LoadInitializationSettings from the response on, and the end of the flow:
\* actions.Login calls kobo.Login() without the three arguments Kobo.Login
\* requires, a TypeError; CheckActivation returns True.
LoginSettingsReturn ==
    /\ pc = "init_wait" /\ Returned
    /\ rpc' = "idle"
    /\ LET e == ParseJson("LoadInitializationSettings", retval) IN
       IF op = "CheckActivation"
         THEN /\ pc' = "done"
              /\ result' = IF e = "none" THEN 1 ELSE 0
              /\ exc' = "none"
         ELSE /\ pc' = "failed"
              /\ result' = result
              /\ exc' = IF e = "none" THEN "TypeError" ELSE e
    /\ UNCHANGED <<req, rreq, frames, sent, rsent, refreshes, retval, wire, faults,
                   idVars, op, ret, calls, syncVars, dlVars,
                   concVars, wishVars, loginVars, listVars, bookList, productId, idx, disk, bpc, run, report>>

\* An exception leaves make_request in AuthenticateDevice or in
\* LoadInitializationSettings.
LoginRaise ==
    /\ pc \in {"auth_wait", "init_wait"} /\ rpc = "raised"
    /\ rpc' = "idle"
    /\ IF op = "CheckActivation"
         THEN pc' = "done" /\ result' = 0 /\ exc' = "none"
         ELSE pc' = "failed" /\ result' = result /\ exc' = exc
    /\ UNCHANGED <<req, rreq, frames, sent, rsent, refreshes, retval, wire, faults,
                   idVars, op, ret, calls, syncVars, dlVars,
                   concVars, wishVars, loginVars, listVars, bookList, productId, idx, disk, bpc, run, report>>

\* A new User, or one loaded from the settings file, where it may have a
\* serial number.
InitAuth ==
    /\ user \in {NewUser, LoggedInUser, [LoggedInUser EXCEPT !.SerialNumber = 1]}
    /\ persisted = user
    /\ saves = 0
    /\ gen = 1
    /\ InitNet
    /\ faults = MaxFaultsAuth
    /\ exc = "none"
    /\ pc = "idle"
    /\ op = "none"
    /\ ret = NoResponse
    /\ calls = 0
    /\ library = 0
    /\ fullBookList = << >>
    /\ syncToken = 0
    /\ book = DefaultBook
    /\ NoDownload
    /\ NoBatch
    /\ NoThreads
    /\ NoWish
    /\ NoLogin
    /\ NoList

NextAuth ==
    \/ Login
    \/ InitiateLogin
    \/ CheckActivation
    \/ AuthenticateDeviceReturn
    \/ LoginSettingsReturn
    \/ LoginRaise
    \/ Open
    \/ ReauthenticationHook
    \/ RefreshAuthentication
    \/ HookResend
    \/ Unwind

SpecAuth == InitAuth /\ [][NextAuth]_vars

----------------------------------------------------------------------------
(* Kobo.Login(email, password, captcha) and Kobo.__GetExtraLoginParameters *)

\* gzip.decompress(response['content']): the body is a gzip stream ("html")
\* or is not ("BadGzipFile"); the body of an HTTPError may be either.
Gunzip(resp) ==
    IF resp.content.kind \in {"signin_page", "signin_result"}
      THEN IF resp.content.gzip THEN {"html"} ELSE {"BadGzipFile"}
      ELSE {"html", "BadGzipFile"}

\* re.search(r"\?workflowId=([^"]{36})", htmlResponse) finds a match.
HasWorkflowId(resp) == resp.content.kind = "signin_page" /\ resp.content.workflowId

\* re.search of the __RequestVerificationToken input finds a match.
HasVerificationToken(resp) == resp.content.kind = "signin_page" /\ resp.content.token

\* re.search(r"'(kobo://UserAuthenticated\?[^']+)';", htmlResponse) finds a match.
HasRedirect(resp) == resp.content.kind = "signin_result" /\ resp.content.redirect

\* soup.find(class_='validation-summary-errors') or
\* soup.find(class_='field-validation-error') finds a node.
HasValidationErrors(resp) == resp.content.kind = "signin_result" /\ resp.content.errors

\* Request(url=signInUrl, headers=headers): no Authorization, no hooks.
SignInPageRequest == NewRequest("sign_in_page", 0, 0, FALSE)

\* Request(signInUrl, data=postData, headers=headers)
SignInRequest == NewRequest("sign_in", 0, 0, FALSE)

\* Kobo.Login is entered: __GetExtraLoginParameters up to make_request().
KoboLogin ==
    /\ pc = "idle"
    /\ op' = "KoboLogin"
    /\ StartRequest(SignInPageRequest)
    /\ pc' = "signin_page_wait"
    /\ exc' = "none"
    /\ UNCHANGED <<wire, faults, idVars, ret, calls, appVars>>

\* __GetExtraLoginParameters from the response on, and Login up to the
\* make_request() of the posted form.
LoginParametersReturn ==
    /\ pc = "signin_page_wait" /\ Returned
    /\ \E z \in Gunzip(retval) :
         LET e == IF z = "BadGzipFile" THEN "BadGzipFile"
                  ELSE IF ~HasWorkflowId(retval) THEN "KoboException"
                  ELSE IF ~HasVerificationToken(retval) THEN "KoboException"
                  ELSE "none" IN
         IF e # "none"
           THEN /\ pc' = "failed"
                /\ exc' = e
                /\ rpc' = "idle"
                /\ UNCHANGED <<req, rreq, frames, sent, rsent, refreshes, retval>>
           ELSE /\ StartRequest(SignInRequest)
                /\ pc' = "signin_wait"
                /\ exc' = exc
    /\ UNCHANGED <<wire, faults, idVars, op, ret, calls, appVars>>

\* Login from the response to the posted form on, up to make_request() in
\* AuthenticateDevice(userKey).
LoginSubmitReturn ==
    /\ pc = "signin_wait" /\ Returned
    /\ \E z \in Gunzip(retval) :
         IF z = "BadGzipFile" \/ ~HasRedirect(retval)
           THEN /\ pc' = "failed"
                /\ exc' = IF z = "BadGzipFile" THEN "BadGzipFile" ELSE "KoboException"
                /\ loginpage' = IF z = "html" /\ ~HasValidationErrors(retval)
                                  THEN 1 ELSE loginpage
                /\ rpc' = "idle"
                /\ UNCHANGED <<req, rreq, frames, sent, rsent, refreshes, retval, user>>
           ELSE /\ user' = NewDevice([user EXCEPT !.UserId = retval.content.userId])
                /\ StartRequest(DeviceAuthRequest(retval.content.userKey))
                /\ pc' = "login_auth_wait"
                /\ exc' = exc
                /\ loginpage' = loginpage
    /\ UNCHANGED <<wire, faults, persisted, saves, gen, op, ret, calls, syncVars, dlVars,
                   batchVars, concVars, wishVars, listVars>>

\* AuthenticateDevice(userKey) from the response on; Login returns.
LoginAuthenticateReturn ==
    /\ pc = "login_auth_wait" /\ Returned
    /\ LET o == DeviceAuthOutcome(user, req.data, retval) IN
       /\ user' = o.user
       /\ persisted' = IF o.save THEN o.user ELSE persisted
       /\ saves' = IF o.save THEN saves + 1 ELSE saves
       /\ pc' = IF o.exc = "none" THEN "done" ELSE "failed"
       /\ exc' = o.exc
    /\ rpc' = "idle"
    /\ UNCHANGED <<req, rreq, frames, sent, rsent, refreshes, retval, wire, faults, gen,
                   op, ret, calls, appVars>>

\* An exception leaves make_request in Login.
KoboLoginRaise ==
    /\ pc \in {"signin_page_wait", "signin_wait", "login_auth_wait"} /\ rpc = "raised"
    /\ rpc' = "idle"
    /\ pc' = "failed"
    /\ UNCHANGED <<req, rreq, frames, sent, rsent, refreshes, retval, wire, faults,
                   idVars, exc, op, ret, calls, appVars>>

\* The identity of an authenticated device no account is attached to yet,
\* new or loaded from the settings file.
DeviceUser == [ReadyUser EXCEPT !.UserId = 0, !.UserKey = 0]

InitLogin ==
    /\ user \in {DeviceUser, [DeviceUser EXCEPT !.SerialNumber = 1]}
    /\ persisted = user
    /\ saves = 0
    /\ gen = 1
    /\ InitNet
    /\ faults = MaxFaultsLogin
    /\ exc = "none"
    /\ pc = "idle"
    /\ op = "none"
    /\ ret = NoResponse
    /\ calls = 0
    /\ library = 0
    /\ fullBookList = << >>
    /\ syncToken = 0
    /\ book = DefaultBook
    /\ NoDownload
    /\ NoBatch
    /\ NoThreads
    /\ NoWish
    /\ NoLogin
    /\ NoList

NextLogin ==
    \/ KoboLogin
    \/ LoginParametersReturn
    \/ LoginSubmitReturn
    \/ LoginAuthenticateReturn
    \/ KoboLoginRaise
    \/ Open
    \/ Unwind

SpecLogin == InitLogin /\ [][NextLogin]_vars

----------------------------------------------------------------------------
(* Request handlers of app.py that run concurrently on one user: each makes  *)
(* one authenticated request with the reauthentication hook. The statements *)
(* of __RefreshAuthentication that read or write the shared User are one    *)
(* step each.                                                               *)

Threads == 1..MaxThreads

\* A handler: where it is, the Authorization value of its request, the
\* refresh token of its refresh request (0: none sent), the response to its
\* refresh request, and the exception that left it.
Handler(at, auth, rt, resp, e) == [pc |-> at, auth |-> auth, rt |-> rt, resp |-> resp, exc |-> e]

\* The handler t moves to position at.
Goto(t, at) == thr' = [thr EXCEPT ![t].pc = at]

\* A refresh token the vendor has already exchanged for a new pair.
Consumed(rt) == \E t \in Threads : thr[t].rt = rt /\ thr[t].resp.status = 200

\* getUserBooks / downloadBook: Kobo(user) makes its request with the access
\* token the shared User holds now.
HandlerRequest(t) ==
    /\ thr[t].pc = "idle"
    /\ thr' = [thr EXCEPT ![t].pc = "wait", ![t].auth = GetHeaderWithAccessToken(user)]
    /\ UNCHANGED <<netVars, idVars, opVars, syncVars, dlVars, batchVars, wishVars, loginVars, listVars>>

\* The answer to the request: 401, and the hook is entered, or any other,
\* and the handler returns.
HandlerAnswer(t) ==
    /\ thr[t].pc = "wait"
    /\ \/ Fault /\ Goto(t, "hook")
       \/ NoFault /\ Goto(t, "done")
    /\ UNCHANGED <<req, rreq, rpc, frames, sent, rsent, refreshes, retval, wire,
                   idVars, opVars, syncVars, dlVars, batchVars, wishVars, loginVars, listVars>>

\* __RefreshAuthentication up to request.make_request(): the refresh token the
\* shared User holds now goes into the form data.
HandlerRefresh(t) ==
    /\ thr[t].pc = "hook"
    /\ thr' = [thr EXCEPT ![t].pc = "refresh_wait", ![t].rt = user.RefreshToken]
    /\ UNCHANGED <<netVars, idVars, opVars, syncVars, dlVars, batchVars, wishVars, loginVars, listVars>>

\* The answer to the refresh request: a token pair of the next generation, or,
\* to a refresh token already exchanged, possibly an error document.
HandlerRefreshAnswer(t) ==
    /\ thr[t].pc = "refresh_wait"
    /\ \/ \E resp \in RefreshOk(gen) :
            /\ thr' = [thr EXCEPT ![t].pc = "answered", ![t].resp = resp]
            /\ gen' = gen + 1
       \/ /\ Consumed(thr[t].rt)
          /\ thr' = [thr EXCEPT ![t].pc = "answered",
                                ![t].resp = Response(unauthorized, [kind |-> "errjson"])]
          /\ gen' = gen
    /\ UNCHANGED <<netVars, user, persisted, saves, opVars, syncVars, dlVars, batchVars, wishVars, loginVars, listVars>>

\* json.loads, the TokenType test, and self.user.AccessToken = ...
HandlerStoreAccessToken(t) ==
    /\ thr[t].pc = "answered"
    /\ LET resp == thr[t].resp IN
       IF JsonLoads(resp) # "none" \/ resp.content.kind # "token"
         THEN /\ thr' = [thr EXCEPT ![t].pc = "raised",
                           ![t].exc = IF JsonLoads(resp) # "none" THEN JsonLoads(resp) ELSE "KeyError"]
              /\ user' = user
       ELSE IF resp.content.TokenType # "Bearer"
         THEN /\ thr' = [thr EXCEPT ![t].pc = "raised", ![t].exc = "KoboException"]
              /\ user' = user
       ELSE /\ Goto(t, "stored_access")
            /\ user' = [user EXCEPT !.AccessToken = resp.content.AccessToken]
    /\ UNCHANGED <<netVars, persisted, saves, gen, opVars, syncVars, dlVars, batchVars, wishVars, loginVars, listVars>>

\* self.user.RefreshToken = ...
HandlerStoreRefreshToken(t) ==
    /\ thr[t].pc = "stored_access"
    /\ Goto(t, "stored")
    /\ user' = [user EXCEPT !.RefreshToken = thr[t].resp.content.RefreshToken]
    /\ UNCHANGED <<netVars, persisted, saves, gen, opVars, syncVars, dlVars, batchVars, wishVars, loginVars, listVars>>

\* The AreAuthenticationSettingsSet test and Globals.Settings.Save(), which
\* writes the shared User as it is now.
HandlerSave(t) ==
    /\ thr[t].pc = "stored"
    /\ IF AreAuthenticationSettingsSet(user)
         THEN /\ Goto(t, "resend")
              /\ persisted' = user
              /\ saves' = saves + 1
         ELSE /\ thr' = [thr EXCEPT ![t].pc = "raised", ![t].exc = "KoboException"]
              /\ UNCHANGED <<persisted, saves>>
    /\ UNCHANGED <<netVars, user, gen, opVars, syncVars, dlVars, batchVars, wishVars, loginVars, listVars>>

\* The hook resends the request, and its answer is what the handler gets.
HandlerResend(t) ==
    /\ thr[t].pc = "resend"
    /\ Goto(t, "done")
    /\ UNCHANGED <<netVars, idVars, opVars, syncVars, dlVars, batchVars, wishVars, loginVars, listVars>>

InitConc ==
    /\ user = LoggedInUser
    /\ persisted = LoggedInUser
    /\ saves = 0
    /\ gen = 1
    /\ InitNet
    /\ faults = MaxFaultsConc
    /\ exc = "none"
    /\ pc = "idle"
    /\ op = "none"
    /\ ret = NoResponse
    /\ calls = 0
    /\ library = 0
    /\ fullBookList = << >>
    /\ syncToken = 0
    /\ book = DefaultBook
    /\ NoDownload
    /\ NoBatch
    /\ thr = [t \in Threads |-> Handler("idle", 0, 0, NoResponse, "none")]
    /\ NoWish
    /\ NoLogin
    /\ NoList

NextConc ==
    \E t \in Threads :
        \/ HandlerRequest(t)
        \/ HandlerAnswer(t)
        \/ HandlerRefresh(t)
        \/ HandlerRefreshAnswer(t)
        \/ HandlerStoreAccessToken(t)
        \/ HandlerStoreRefreshToken(t)
        \/ HandlerSave(t)
        \/ HandlerResend(t)

SpecConc == InitConc /\ [][NextConc]_vars

----------------------------------------------------------------------------
(* Properties of the reauthentication hook, checked under SpecReq *)

Last(log) == log[Len(log)]

\* The operation has ended, normally or with an exception.
Ended == pc \in {"done", "failed"}

\* C1: when the first send of an authenticated request is answered 401 and the
\* resend 200, exactly one refresh was performed, the request was resent
\* exactly once, and make_request hands the 200 response of the resend to its
\* caller, which builds its result from it.
C1_RefreshOnceResendOnce ==
    (Len(sent) >= 2 /\ sent[1].hooks /\ sent[1].status = 401 /\ sent[2].status = 200) =>
        /\ refreshes = 1
        /\ Len(sent) = 2
        /\ sent[2].ep = sent[1].ep
        /\ (Returned => retval.status = 200 /\ retval = req.copy)
        /\ (pc = "done" => ret.status = 200)
        /\ pc # "failed"

C1_Witness ==
    /\ pc = "done" /\ op = "GetBookInfo"
    /\ Len(sent) = 2 /\ sent[1].hooks /\ sent[1].status = 401 /\ sent[2].status = 200
    /\ refreshes = 1 /\ ret.status = 200

\* C2: the resend that follows a 401-triggered refresh carries in its
\* Authorization header the access token that refresh stored in the identity,
\* not the token of the request the server rejected.
C2_ResendCarriesNewToken ==
    \A i \in 2..Len(sent) :
        (sent[i-1].hooks /\ sent[i-1].status = 401) =>
            /\ sent[i].auth = sent[i].token
            /\ sent[i].auth # sent[i-1].auth

\* C4: the refresh request is never sent with the reauthentication hook, and
\* once it is answered 401 nothing more is sent: no second refresh, no resend
\* of the original request, and the operation does not end normally.
C4_RefreshNotHooked ==
    /\ \A i \in 1..Len(rsent) : ~rsent[i].hooks /\ rsent[i].ep = "refresh"
    /\ \A i \in 1..Len(rsent) : rsent[i].status = 401 =>
          /\ i = Len(rsent)
          /\ refreshes = 1
          /\ rpc # "open" /\ rpc # "hook" /\ rpc # "rehook"
          /\ Last(sent).hooks /\ Last(sent).status = 401
          /\ pc # "done"
          /\ (Ended => pc = "failed" /\ exc \in {"JSONDecodeError", "KeyError"})

C4_Witness ==
    /\ pc = "failed" /\ rsent # << >> /\ Last(rsent).status = 401
    /\ refreshes = 1 /\ Len(sent) = 1

\* A log in which a request is sent again only after a 401 answered to a
\* Request that had its hook.
OnlyResentAfter401(log) ==
    \A i \in 2..Len(log) : log[i-1].hooks /\ log[i-1].status = 401

\* A log in which a request is sent again only after a 401 answered to a
\* Request that had its hook, or after a 403.
OnlyResentAfter401Or403(log) ==
    \A i \in 2..Len(log) :
        \/ log[i-1].hooks /\ log[i-1].status = 401
        \/ log[i-1].status = 403

\* C5 as stated: apart from the resend after a 401-triggered refresh no
\* request is sent more than once.
C5_NoOtherResend == OnlyResentAfter401(sent) /\ OnlyResentAfter401(rsent)

\* C5 amended: a request is sent again only after a 401-triggered refresh
\* (once per request) or after a 403 (while it got fewer than max_retries of
\* them); any other error status ends it.
C5_ResendOnlyAfter401Or403 ==
    /\ OnlyResentAfter401Or403(sent) /\ OnlyResentAfter401Or403(rsent)
    /\ Cardinality({i \in 1..Len(sent) : sent[i].hooks /\ sent[i].status = 401}) <= 1
    /\ Cardinality({i \in 1..Len(sent) : sent[i].status = 403}) <= max_retries
    /\ Cardinality({i \in 1..Len(rsent) : rsent[i].status = 403}) <= max_retries
    /\ \A i \in 1..Len(sent) : sent[i].status = 500 => i = Len(sent) /\ rpc # "open"

C5_Witness ==
    /\ Ended /\ Len(sent) = 2 /\ sent[1].status = 403 /\ sent[2].status = 500


\* Every send of the log was answered 403.
AllForbidden(log) == log # << >> /\ \A i \in 1..Len(log) : log[i].status = forbidden

----------------------------------------------------------------------------
(* Properties of GetMyBookList, checked under SpecSync *)

RECURSIVE Pages(_)
\* The concatenation of pages 1..n of the library.
Pages(n) == IF n = 0 THEN << >> ELSE Pages(n - 1) \o PageItems(n)

\* C3: when an authenticated request is answered 401 before and after the
\* refresh, there was exactly one refresh and one resend, nothing more is
\* sent, and GetMyBookList does not end normally with a list built from the
\* 401 response.
C3_Second401IsTerminal ==
    (Len(sent) >= 2 /\ sent[1].hooks /\ sent[1].status = 401 /\ sent[2].status = 401) =>
        /\ refreshes = 1
        /\ Len(sent) = 2
        /\ rpc # "open" /\ rpc # "hook"
        /\ pc # "done"

\* C8: against a library of N pages whose requests all got their page,
\* GetMyBookList sends at most N library-sync requests, stops at the response
\* without continuation, and then has sent exactly N requests and returns the
\* concatenation of the N pages in order.
C8_PaginationStopsAtEmptyCursor ==
    (op = "GetMyBookList" /\ faults = MaxFaultsSync /\ exc = "none") =>
        /\ Len(wire) <= library
        /\ fullBookList = Pages(Len(wire) - (IF pc = "page_wait" /\ sent # << >> THEN 1 ELSE 0))
        /\ (pc = "done" => Len(wire) = library /\ fullBookList = Pages(library))
        /\ pc # "failed"

C8_Witness ==
    /\ pc = "done" /\ library = MaxPages /\ faults = MaxFaultsSync
    /\ Len(wire) = MaxPages /\ fullBookList = Pages(MaxPages)

\* The response signals continuation with a non-empty cursor.
SignalsContinuation(resp) == resp.headers.sync = "continue" /\ resp.headers.synctoken # 0

\* C22: GetMyBookList starts with an empty cursor, so the first library-sync
\* request carries no cursor header; every request of __GetMyBookListPage
\* carries exactly the cursor the loop holds, which after a page is the one
\* of that page's response; and after a page the loop requests another one
\* if and only if the response signalled continuation with a non-empty cursor.
C22_CursorCarriedToNextRequest ==
    [][ /\ (pc = "idle" /\ pc' = "page") => syncToken' = 0
        /\ (pc = "page" /\ pc' = "page_wait") =>
              /\ req'.cursor = syncToken
              /\ (fullBookList = << >> /\ wire = << >> => req'.cursor = 0)
        /\ (pc = "page_wait" /\ Returned /\ pc' \in {"page", "done"}) =>
              /\ (pc' = "page") <=> SignalsContinuation(retval)
              /\ SignalsContinuation(retval) => syncToken' = retval.headers.synctoken
        /\ (wire' # << >> => wire'[1] = 0)
      ]_vars

\* A library of MaxPages pages has been read to its end: each request after
\* the first carried the cursor of the page before it, and the last page
\* came with a cursor but without x-kobo-sync: continue.
C22_Witness ==
    /\ op = "GetMyBookList" /\ pc = "done" /\ library = MaxPages
    /\ wire = [k \in 1..MaxPages |-> k - 1]
    /\ retval.headers.synctoken = MaxPages /\ retval.headers.sync = ""

\* AuthenticationReady, as the data model states it: deviceId, accessToken
\* and refreshToken are all non-empty.
AuthenticationReady(u) == u.DeviceId # 0 /\ u.AccessToken # 0 /\ u.RefreshToken # 0

\* C9: GetMyBookList called with an identity that is not AuthenticationReady
\* raises NotAuthenticatedException at once: no request has been sent, and
\* the identity and what is persisted of it are as they were.
C9_NotAuthenticatedUpFront ==
    [][ (pc = "idle" /\ op' = "GetMyBookList" /\ ~AuthenticationReady(user)) =>
            /\ pc' = "failed" /\ exc' = "NotAuthenticatedException"
            /\ wire' = << >> /\ sent' = << >> /\ rsent' = << >> /\ rpc' = "idle"
            /\ user' = user /\ persisted' = persisted /\ saves' = saves ]_vars

C9_Witness ==
    /\ op = "GetMyBookList" /\ pc = "failed" /\ exc = "NotAuthenticatedException"
    /\ user = [ReadyUser EXCEPT !.RefreshToken = 0]
    /\ wire = << >>

----------------------------------------------------------------------------
(* Properties of Kobo.Download, checked under SpecDownload *)

\* __GetDownloadInfo returned a download URL: Download is in or past its try
\* block.
Resolved == info.url # 0

\* Download raised.
DownloadRaised == op = "Download" /\ pc = "failed"

\* C6: whenever Download of an ebook raises after resolution (while streaming
\* to the temporary file, in the content-key fetch, in DRM removal, in the
\* copy or in the rename), no file exists at <target>.downloading and no file
\* exists at the target path when the exception leaves Download.
C6_EbookDownloadAtomic ==
    (DownloadRaised /\ ~book.isAudiobook /\ Resolved)
        => fs.temp = NoFile /\ fs.target = NoFile

\* An ebook download that raised after a chunk had been written, or out of
\* DRM removal.
C6_Witness ==
    /\ DownloadRaised /\ ~book.isAudiobook /\ Resolved
    /\ \/ exc = "OSError" /\ wpos > 0
       \/ exc = "DrmError" /\ drmCalls # << >>

C10_DrmFreeIsStreamedBytes ==
    (op = "Download" /\ pc = "done" /\ ~book.isAudiobook /\ info.hasDrm = << >>)
        => /\ fs.target = File(Bytes(retval))
           /\ (Last(sent).status = 200 => fs.target = File(book.content))
           /\ fs.temp = NoFile
           /\ fs.ade = NoFile
           /\ drmCalls = << >>

\* A DRM-free ebook of several chunks was downloaded.
C10_Witness ==
    /\ op = "Download" /\ pc = "done" /\ ~book.isAudiobook /\ info.hasDrm = << >>
    /\ Len(book.content) > 1
    /\ fs.target = File(book.content)

\* The variant __GetDownloadInfo selected carries KDRM.
SelectedKdrm == info.hasDrm # << >> /\ info.hasDrm[1] = "KDRM"

\* The name-to-value map of a key list: each name with the value of its last
\* entry.
NameToValue(keys) ==
    LET l == keys.list
        at(n) == CHOOSE i \in 1..Len(l) :
                    l[i].Name = n /\ \A j \in (i+1)..Len(l) : l[j].Name # n IN
    [n \in {l[i].Name : i \in 1..Len(l)} |-> l[at(n)].Value]

\* C11: a successful Download of an ebook whose selected variant is KDRM
\* invoked the DRM remover exactly once, with the identity's DeviceId and
\* UserId, the temporary path as input, the target path as output and exactly
\* the name-to-value map of the ContentKeys of the content-access response,
\* and no <target>.downloading file remains.
C11_KdrmRemovedOnceWithKeys ==
    (op = "Download" /\ pc = "done" /\ ~book.isAudiobook /\ SelectedKdrm)
        => /\ Len(drmCalls) = 1
           /\ drmCalls[1].DeviceId = user.DeviceId
           /\ drmCalls[1].UserId = user.UserId
           /\ drmCalls[1].inputPath = "temp"
           /\ drmCalls[1].outputPath = "target"
           /\ drmCalls[1].contentKeys = NameToValue(Document(retval).ContentKeys)
           /\ fs.temp = NoFile

\* A KDRM ebook whose key list names one key twice was downloaded.
C11_Witness ==
    /\ op = "Download" /\ pc = "done" /\ ~book.isAudiobook /\ SelectedKdrm
    /\ Len(book.keys.list) > Cardinality(DOMAIN drmCalls[1].contentKeys)
    /\ fs.target = File(Decrypt(book.content))

\* The variant __GetDownloadInfo selected carries AdobeDrm.
SelectedAdobeDrm == info.hasDrm # << >> /\ info.hasDrm[1] = "AdobeDrm"

\* C12: Download of an ebook whose selected variant is AdobeDrm raises nothing
\* of its own (only a transport or file-system failure makes it raise), and
\* when it completes the streamed bytes are, unchanged, at <target>.ade, the
\* temporary file is deleted, the DRM remover was never invoked and no file
\* was created at the plain target path.
C12_AdobeDrmSidecar ==
    (op = "Download" /\ ~book.isAudiobook /\ SelectedAdobeDrm)
        => /\ pc = "failed" => exc \in {"URLError", "OSError"}
           /\ pc = "done" => /\ fs.ade = File(Bytes(retval))
                             /\ (Last(sent).status = 200 => fs.ade = File(book.content))
                             /\ fs.temp = NoFile
                             /\ drmCalls = << >>
                             /\ fs.target \in {NoFile, OldFile}

\* An AdobeDrm ebook of several chunks was downloaded to a free target path.
C12_Witness ==
    /\ op = "Download" /\ pc = "done" /\ ~book.isAudiobook /\ SelectedAdobeDrm
    /\ Len(book.content) > 1
    /\ fs.ade = File(book.content)
    /\ fs.target = NoFile

\* Download of an ebook whose selected variant has no DRM, after resolution.
DrmFreeEbook == op = "Download" /\ ~book.isAudiobook /\ Resolved /\ info.hasDrm = << >>

\* C23: in a Download of a DRM-free ebook a write changes the file at
\* <target>.downloading and nothing else, and the file at the target path
\* changes only in the rename step, which moves the temporary file there
\* when it holds the whole content of the response, or in the removal of the
\* except block; so the target path never holds a partial file.
C23_TargetAppearsByRenameOnly ==
    [][ DrmFreeEbook =>
          /\ (pc = "write" /\ wpos' = wpos + 1) =>
                /\ fs'.target = fs.target /\ fs'.ade = fs.ade
                /\ fs'.temp = File(SubSeq(Bytes(retval), 1, wpos'))
          /\ (fs'.target # fs.target) =>
                \/ /\ pc = "drm" /\ pc' = "done"
                   /\ fs.temp = File(Bytes(retval))
                   /\ fs'.target = fs.temp /\ fs'.temp = NoFile
                \/ /\ pc = "except" /\ fs'.target = NoFile
      ]_vars

\* An intermediate state: the first of several chunks is in the temporary
\* file and nothing is at the target path.
C23_Witness ==
    /\ DrmFreeEbook /\ pc = "write"
    /\ Len(Bytes(retval)) = MaxChunks /\ wpos = 1
    /\ fs.temp = File(<<Bytes(retval)[1]>>)
    /\ fs.target = NoFile

\* C24: when Download of an ebook raises, a complete file that an earlier
\* download had left at the target path is still there.
C24_FailedDownloadKeepsExistingFile ==
    [][ (op = "Download" /\ ~book.isAudiobook /\ fs.target = OldFile /\ pc' = "failed")
            => fs'.target = OldFile ]_vars

\* C25: a Download of an ebook whose content request was last answered with
\* an HTTP error status raises, and the body of that answer is not left as a
\* file at the target path.
C25_HttpErrorFailsDownload ==
    (DrmFreeEbook /\ pc \in {"done", "failed"}
       /\ sent # << >> /\ Last(sent).ep = "content" /\ Last(sent).status # 200)
        => /\ pc = "failed"
           /\ fs.target # File(ErrorBytes)

----------------------------------------------------------------------------
(* Properties of actions.GetBookOrBooks, checked under SpecBatch *)

\* The outcomes of an entitlement the loop passes over.
SkipOutcomes ==
    {"skip_none", "skip_unknown", "skip_subscription", "skip_existing", "skip_other", "skip_archived"}

NoFiles == [target |-> NoFile, temp |-> NoFile, ade |-> NoFile]

\* C14: in GetBookOrBooks, with or without a productId, an entitlement whose
\* IsRemoved flag is set never reaches Kobo.Download (so no request is made
\* and no file is written for it); it is passed over as a skip, nothing is
\* raised for it, and the loop goes on to the entitlements after it.
C14_ArchivedNeverDownloaded ==
    /\ \A i \in 1..Len(bookList) : bookList[i].IsRemoved => disk[i] = NoFiles
    /\ \A k \in 1..Len(report) :
         bookList[report[k].item].IsRemoved => report[k].outcome \in SkipOutcomes
    /\ (idx > 0 /\ bookList[idx].IsRemoved)
         => /\ bpc \in {"loop", "returned"}
            /\ bpc = "returned" => idx = Len(bookList) /\ result = 0
            /\ report # << >> /\ Last(report).item = idx

\* An archived entitlement was skipped and a later one downloaded.
C14_Witness ==
    \E j, k \in 1..Len(report) :
        /\ j < k
        /\ report[j].outcome = "skip_archived"
        /\ report[k].outcome = "downloaded"
        /\ report[k].item > report[j].item

\* The exceptions of the claims' error classes: ContentUnavailable, an error
\* of the DRM remover, a local I/O error.
DownloadErrors == {"KoboException", "DrmError", "OSError"}

\* C15: in batch mode, when Download of one item fails with KoboException,
\* with an error of the DRM remover or with an I/O error, GetBookOrBooks
\* reports it and goes on with the later entitlements; it does not raise.
C15_BatchContinuesAfterFailure ==
    (productId = 0 /\ report # << >> /\ Last(report).exc \in DownloadErrors)
        => Last(report).outcome = "failed" /\ bpc # "raised"

\* C16: with a productId, an error raised by Download of the requested item
\* leaves GetBookOrBooks unchanged: it is never only reported, no path is
\* returned, and no later entitlement is taken.
C16_SingleItemErrorPropagates ==
    productId # 0 =>
        \A k \in 1..Len(report) :
            report[k].exc # "none"
                => /\ report[k].outcome = "raised"
                   /\ report[k].item = productId
                   /\ k = Len(report)
                   /\ bpc = "raised"
                   /\ exc = report[k].exc
                   /\ result = 0
                   /\ idx = report[k].item

\* Download of the requested item raised KoboException while the list had
\* entitlements after it.
C16_Witness ==
    /\ productId # 0 /\ bpc = "raised"
    /\ report # << >> /\ Last(report).exc = "KoboException"
    /\ idx < Len(bookList)

----------------------------------------------------------------------------
(* Properties of repeated batch runs, checked under SpecRerun *)

\* Every entitlement of the library was downloaded in the first run.
FirstRunComplete ==
    \A i \in 1..Len(bookList) :
        \E k \in 1..Len(report) :
            report[k].run = 1 /\ report[k].item = i /\ report[k].outcome = "downloaded"

\* C13: after a batch run that downloaded every item, a second batch run on
\* the same library and output directory calls Download for no item: each is
\* skipped as already downloaded.
C13_RerunDownloadsNothing ==
    (productId = 0 /\ run > 1 /\ FirstRunComplete)
        => /\ bpc # "download"
           /\ \A k \in 1..Len(report) : report[k].run > 1 => report[k].outcome = "skip_existing"

----------------------------------------------------------------------------
(* Properties of Kobo.__GetDownloadInfo, checked under SpecResolve *)

\* The variant has a non-empty URL field.
HasUrl(v) == v.DownloadUrl # 0 \/ v.Url # 0

\* The value of the DRM-type field of a variant ("": it has none).
DrmTypeField(v) == IF v.DrmType # "" THEN v.DrmType ELSE v.DRMType

\* The DRM kind Download acts on.
DrmKind ==
    IF info.hasDrm = << >> THEN "None"
    ELSE IF info.hasDrm[1] = "AdobeDrm" THEN "ForeignDrm"
    ELSE "VendorDrm"

\* C17: resolution returns the URL of the first variant, in list order, that
\* has a non-empty URL field, with the DRM kind of that same variant:
\* VendorDrm iff its DRM-type field is KDRM, ForeignDrm iff it is AdobeDrm,
\* None for any other value and for an absent field.
C17_FirstUsableVariant ==
    (op = "Download" /\ pc = "fetch")
        => LET l == book.variants.list IN
           \E i \in 1..Len(l) :
              /\ HasUrl(l[i])
              /\ \A j \in 1..(i - 1) : ~HasUrl(l[j])
              /\ info.url \in {l[i].DownloadUrl, l[i].Url} \ {0}
              /\ DrmKind = "VendorDrm" <=> DrmTypeField(l[i]) = "KDRM"
              /\ DrmKind = "ForeignDrm" <=> DrmTypeField(l[i]) = "AdobeDrm"
              /\ DrmKind = "None" <=> DrmTypeField(l[i]) \notin {"KDRM", "AdobeDrm"}

\* Resolution passed over a KDRM variant without URL and selected an AdobeDrm
\* variant after it.
C17_Witness ==
    /\ op = "Download" /\ pc = "fetch"
    /\ Len(book.variants.list) > 1
    /\ ~HasUrl(book.variants.list[1])
    /\ DrmTypeField(book.variants.list[1]) = "KDRM"
    /\ info.url = 2
    /\ DrmKind = "ForeignDrm"

\* The variant list of the item is absent, empty, or has no variant with a
\* non-empty URL field.
NoUsableVariant ==
    \/ ~book.variants.present
    \/ \A i \in 1..Len(book.variants.list) : ~HasUrl(book.variants.list[i])

\* C18: when the variant list is absent, is empty or has no variant with a
\* usable URL, resolution fails with KoboException and with no other
\* exception, whatever fields the variants have, and no temporary file,
\* target file or directory has been created.
C18_UnavailableIsKoboException ==
    (op = "Download" /\ rpc = "idle" /\ faults = MaxFaultsResolve /\ NoUsableVariant)
        => /\ pc = "failed"
           /\ exc = "KoboException"
           /\ fs = NoFiles

----------------------------------------------------------------------------
(* Properties of authentication and login, checked under SpecAuth *)

\* A step in which AuthenticateDevice handles the response to its request.
AuthenticateDeviceStep == pc = "auth_wait" /\ Returned /\ pc' # pc

\* A step in which __RefreshAuthentication handles the response to its request.
RefreshStep == rpc = "return" /\ frames # << >> /\ Top.at = "refresh" /\ rpc' # rpc

\* The token pair of the server's response is what the identity holds.
TokensFrom(resp, u) ==
    /\ u.AccessToken = resp.content.AccessToken
    /\ u.RefreshToken = resp.content.RefreshToken

\* C19: when AuthenticateDevice or __RefreshAuthentication returns without
\* error, the identity is AuthenticationReady, its tokens are the pair of
\* the server's response, and Settings.Save ran after the tokens were stored
\* (what is persisted holds them); when either raises, it has not saved.
C19_AuthReturnsReadyAndSaved ==
    [][ /\ (AuthenticateDeviceStep /\ pc' = "init_wait") =>
              /\ AuthenticationReady(user')
              /\ TokensFrom(retval, user')
              /\ saves' = saves + 1 /\ persisted' = user'
        /\ (AuthenticateDeviceStep /\ pc' # "init_wait") =>
              saves' = saves /\ persisted' = persisted
        /\ (pc = "auth_wait" /\ rpc = "raised" /\ pc' # pc) =>
              saves' = saves /\ persisted' = persisted
        /\ (RefreshStep /\ rpc' = "rehook") =>
              /\ AuthenticationReady(user')
              /\ TokensFrom(retval, user')
              /\ saves' = saves + 1 /\ persisted' = user'
        /\ (RefreshStep /\ rpc' # "rehook") =>
              saves' = saves /\ persisted' = persisted
      ]_vars

\* Both operations have returned and saved in one behaviour, the device
\* authentication with the vendor's user key, and the identity holds the
\* tokens of the refresh, the last of the two.
C19_Witness ==
    /\ op = "CheckActivation" /\ pc = "init_wait"
    /\ saves = 2 /\ refreshes = 1
    /\ user.UserKey = VendorIdentity.UserKey
    /\ AuthenticationReady(user) /\ persisted = user
    /\ user.AccessToken > 1

\* The response is a token document of another scheme than Bearer.
NotBearer(resp) == resp.content.kind = "token" /\ resp.content.TokenType # "Bearer"

\* C27: when the response to the device authentication or to the refresh has
\* a token type other than Bearer, the operation raises KoboException (which
\* CheckActivation turns into its result False), the identity is as it was
\* before the response, and nothing is saved.
C27_WrongTokenTypeRejected ==
    [][ /\ (AuthenticateDeviceStep /\ NotBearer(retval)) =>
              /\ user' = user
              /\ saves' = saves /\ persisted' = persisted
              /\ op = "Login" => (pc' = "failed" /\ exc' = "KoboException")
              /\ op = "CheckActivation" => (pc' = "done" /\ result' = 0)
        /\ (RefreshStep /\ NotBearer(retval)) =>
              /\ user' = user
              /\ saves' = saves /\ persisted' = persisted
              /\ rpc' = "raised" /\ exc' = "KoboException"
      ]_vars

\* A refresh was answered with a token pair of another scheme and raised: the
\* identity still holds the pair of the device authentication, as saved then.
C27_Witness ==
    /\ refreshes = 1 /\ exc = "KoboException" /\ saves = 1
    /\ NotBearer(retval)
    /\ retval.content.RefreshToken # user.RefreshToken
    /\ AuthenticationReady(user) /\ persisted = user

\* A step in which AuthenticateDevice is entered and runs up to its request.
AuthenticateDeviceEntered == pc \in {"idle", "activation"} /\ pc' = "auth_wait"

\* C28: AuthenticateDevice on an identity without device id gives it a device
\* id and a serial number, both non-empty, and clears both tokens before the
\* request; on an identity with a device id it leaves device id, serial
\* number and tokens as they are.
C28_FreshDeviceIdAndSerial ==
    [][ AuthenticateDeviceEntered =>
          IF user.DeviceId = 0
            THEN /\ user'.DeviceId # 0 /\ user'.SerialNumber # 0
                 /\ user'.AccessToken = 0 /\ user'.RefreshToken = 0
            ELSE /\ user'.DeviceId = user.DeviceId
                 /\ user'.SerialNumber = user.SerialNumber
                 /\ user'.AccessToken = user.AccessToken
                 /\ user'.RefreshToken = user.RefreshToken
      ]_vars

\* The vendor has accepted the flow: no error answer and no transport
\* failure, and the device authentication has returned and saved.
VendorAccepted == faults = MaxFaultsAuth /\ saves = 1

\* C20: a login flow the vendor accepts, actions.Login or InitiateLogin
\* followed by CheckActivation, ends without an exception with the user id
\* set, the vendor's user key stored and the identity AuthenticationReady.
C20_LoginFlowsEndAuthenticated ==
    (op \in {"Login", "CheckActivation"} /\ pc \in {"done", "failed"} /\ VendorAccepted) =>
        /\ pc = "done"
        /\ user.UserId # 0
        /\ user.UserKey # 0
        /\ AuthenticationReady(user)
        /\ persisted = user

----------------------------------------------------------------------------
(* Properties of concurrent handlers, checked under SpecConc *)

\* The handlers whose refresh request is in flight.
RefreshInFlight == {t \in Threads : thr[t].pc = "refresh_wait"}

\* The token pair of the identity comes from one refresh response (or is the
\* initial pair): a response carries one generation in both tokens.
FromOneResponse(u) == u.AccessToken = u.RefreshToken

\* C21: with two handlers on one user that both receive 401, at most one
\* refresh request is in flight, no two refresh requests carry the same
\* refresh token, and once every handler has returned the identity holds an
\* access token and a refresh token of the same refresh response.
C21_RefreshSerialized ==
    /\ Cardinality(RefreshInFlight) <= 1
    /\ \A t1, t2 \in Threads :
         (t1 # t2 /\ thr[t1].rt # 0 /\ thr[t2].rt # 0) => thr[t1].rt # thr[t2].rt
    /\ (\A t \in Threads : thr[t].pc = "done") => FromOneResponse(user)

----------------------------------------------------------------------------
(* Properties of Kobo.GetMyWishList, checked under SpecWish *)

\* max(1, n)
AtLeastOne(n) == IF n > 1 THEN n ELSE 1

\* C29: against a wishlist that reports the page count T in every answer, and
\* with every request answered, GetMyWishList never sends more than max(1, T)
\* wishlist requests, goes on only while its page index is below that, does
\* not fail, and has sent exactly max(1, T) requests when it returns.
C29_WishListStopsAtPageCount ==
    (op = "GetMyWishList" /\ faults = MaxFaultsWish) =>
        /\ Len(asked) <= AtLeastOne(wishlist)
        /\ pc \in {"wish", "wish_wait"} => currentPageIndex < AtLeastOne(wishlist)
        /\ pc = "done" =>
              /\ Len(asked) = AtLeastOne(wishlist)
              /\ currentPageIndex = AtLeastOne(wishlist)
        /\ pc # "failed"

\* GetMyWishList has returned from a wishlist of MaxWishPages pages.
C29_Witness ==
    /\ op = "GetMyWishList" /\ pc = "done" /\ faults = MaxFaultsWish
    /\ wishlist = MaxWishPages /\ Len(asked) = MaxWishPages

\* The pages 0..n-1 of the wishlist, one after the other.
RECURSIVE WishPages(_)
WishPages(n) == IF n = 0 THEN << >> ELSE WishPages(n - 1) \o WishItems(n - 1)

\* C30: with every request answered, the k-th wishlist request (k = 0, 1,
\* ...) asks the vendor for page k, and the list GetMyWishList returns is the
\* concatenation of the pages 0..T-1.
C30_WishListPagesOnceEach ==
    (op = "GetMyWishList" /\ faults = MaxFaultsWish) =>
        /\ \A k \in 1..Len(asked) : asked[k] = k - 1
        /\ pc = "done" => items = WishPages(wishlist)

----------------------------------------------------------------------------
(* actions.__GetBookList, called by ListBooks: the rows of the listing from  *)
(* the entitlements Kobo.GetMyBookList returned. The export file is not     *)
(* held.                                                                    *)

\* The key of the entitlement part of a NewEntitlement: BookEntitlement for
\* an ebook or a subscription, AudiobookEntitlement for an audiobook.
EntitlementKey(meta) ==
    IF meta = "AudiobookMetadata" THEN "AudiobookEntitlement" ELSE "BookEntitlement"

\* An entry of the library as __GetBookList reads it: whether it has a
\* NewEntitlement, the metadata key it carries ("none": no known one), the
\* key of its entitlement part with Accessibility and IsLocked in it, whether
\* ReadingState.StatusInfo.Status is Finished, and the Title.
Entitlements ==
    { [NewEntitlement |-> n, meta |-> m, key |-> EntitlementKey(m),
       Accessibility |-> a, IsLocked |-> l, Finished |-> f, Title |-> t]
        : n \in BOOLEAN,
          m \in {"BookMetadata", "AudiobookMetadata", "BookSubscriptionEntitlement", "none"},
          a \in {"Full", "Preview"}, l \in BOOLEAN, f \in BOOLEAN, t \in {"a", "B"} }

\* __IsBookRead
IsBookRead(e) == e.Finished

\* __GetBookMetadata: the book type.
BookTypeOf(e) ==
    CASE e.meta = "BookMetadata"                -> "EBOOK"
      [] e.meta = "AudiobookMetadata"           -> "AUDIOBOOK"
      [] e.meta = "BookSubscriptionEntitlement" -> "SUBSCRIPTION"
      [] OTHER                                  -> "None"

SUPPORTED_BOOK_TYPES == {"EBOOK", "AUDIOBOOK"}

\* newEntitlement.get('BookEntitlement') is not None
HasBookEntitlement(e) == e.key = "BookEntitlement"

\* The loop body of __GetBookList appends a row for the entry.
Listable(e, all) ==
    /\ e.NewEntitlement
    /\ ~(HasBookEntitlement(e) /\ e.Accessibility = "Preview")
    /\ ~(HasBookEntitlement(e) /\ e.IsLocked)
    /\ ~(~all /\ IsBookRead(e))
    /\ BookTypeOf(e) \in SUPPORTED_BOOK_TYPES

\* The row of entry i of the list: RevisionId (the position stands for it),
\* Title, Audiobook.
Row(list, i) ==
    [RevisionId |-> i, Title |-> list[i].Title,
     Audiobook |-> BookTypeOf(list[i]) = "AUDIOBOOK"]

\* The rows of the first k entries, in the order of the list.
RECURSIVE RowsOf(_, _, _)
RowsOf(list, k, all) ==
    IF k = 0 THEN << >>
    ELSE IF Listable(list[k], all)
      THEN Append(RowsOf(list, k - 1, all), Row(list, k))
      ELSE RowsOf(list, k - 1, all)

\* columns[1].lower()
Lower(t) == IF t = "B" THEN "b" ELSE t

\* The order of the lower-case titles.
TitleRank(t) == IF t = "a" THEN 1 ELSE 2

\* sorted(rows, key=...): each row goes behind the rows whose key is not
\* greater (the sort is stable).
RECURSIVE Sorted(_)
Sorted(rs) ==
    IF rs = << >> THEN << >>
    ELSE LET init == Sorted(SubSeq(rs, 1, Len(rs) - 1))
             r == rs[Len(rs)]
             Before == {i \in 1..Len(init) :
                          TitleRank(Lower(init[i].Title)) <= TitleRank(Lower(r.Title))}
             n == Cardinality(Before) IN
         SubSeq(init, 1, n) \o <<r>> \o SubSeq(init, n + 1, Len(init))

\* __GetBookList(kobo, listAll, exportFile) from the return of
\* kobo.GetMyBookList() on.
GetBookList ==
    /\ pc = "idle"
    /\ op' = "ListBooks"
    /\ rows' = Sorted(RowsOf(fullBookList, Len(fullBookList), listAll))
    /\ pc' = "done"
    /\ UNCHANGED <<netVars, idVars, exc, ret, calls, syncVars, dlVars, batchVars,
                   concVars, wishVars, loginVars, listAll>>

\* The library GetMyBookList returned, and the listAll argument.
InitList ==
    /\ user = LoggedInUser
    /\ persisted = LoggedInUser
    /\ saves = 0
    /\ gen = 1
    /\ InitNet
    /\ faults = 0
    /\ exc = "none"
    /\ pc = "idle"
    /\ op = "none"
    /\ ret = NoResponse
    /\ calls = 0
    /\ library = 0
    /\ fullBookList \in UNION {[1..n -> Entitlements] : n \in 0..MaxListed}
    /\ syncToken = 0
    /\ book = DefaultBook
    /\ NoDownload
    /\ NoBatch
    /\ NoThreads
    /\ NoWish
    /\ NoLogin
    /\ listAll \in BOOLEAN
    /\ rows = << >>

NextList == GetBookList

SpecList == InitList /\ [][NextList]_vars

----------------------------------------------------------------------------
(* Properties of Kobo.Login *)

\* Login has failed on a page it could decode.
LoginFailedOnPage ==
    op = "KoboLogin" /\ pc = "failed" /\ exc \notin {"URLError", "BadGzipFile"}

\* The failure is a missing workflow id or verification token, or a missing
\* redirect URL on a page without validation-error node.
MarkerMissing ==
    /\ LoginFailedOnPage
    /\ \/ req.ep = "sign_in_page" /\ ~(HasWorkflowId(retval) /\ HasVerificationToken(retval))
       \/ req.ep = "sign_in" /\ ~HasRedirect(retval) /\ ~HasValidationErrors(retval)

\* The failure is a missing redirect URL on a page with a validation-error
\* node.
CredentialsRejected ==
    /\ LoginFailedOnPage
    /\ req.ep = "sign_in" /\ ~HasRedirect(retval) /\ HasValidationErrors(retval)

\* The exception class raised for a missing marker.
MarkerMissingError == "KoboException"

\* In a failure of Login on a page, AuthenticateDevice has not been called
\* and nothing was saved.
LoginFailureLeavesIdentity ==
    (MarkerMissing \/ CredentialsRejected) =>
        /\ req.ep # "auth_device"
        /\ gen = 1
        /\ saves = 0
        /\ persisted \in {DeviceUser, [DeviceUser EXCEPT !.SerialNumber = 1]}
        /\ user = persisted

\* C31: a login that fails for a missing workflow id, verification token or
\* redirect URL (no validation-error node) raises one kind of error, a login
\* that fails with a validation-error node in the page raises a different
\* kind, and in each of these failures AuthenticateDevice has not been called
\* and nothing was saved.
C31_LoginFailureKindsDistinct ==
    /\ MarkerMissing => exc = MarkerMissingError
    /\ CredentialsRejected => exc # MarkerMissingError
    /\ LoginFailureLeavesIdentity

----------------------------------------------------------------------------
(* Properties of ListBooks *)

\* Entry i of the library is in the listing.
Listed(i) == \E k \in 1..Len(rows) : rows[k].RevisionId = i

\* ListBooks has returned.
ListReturned == op = "ListBooks" /\ pc = "done"

\* An ebook or audiobook of the library that is neither preview nor locked.
ActiveItem(e) ==
    /\ e.NewEntitlement
    /\ BookTypeOf(e) \in SUPPORTED_BOOK_TYPES
    /\ e.Accessibility # "Preview" /\ ~e.IsLocked

\* No preview and no locked entry is listed, and no finished entry without
\* listAll.
ListingExcludes ==
    ListReturned =>
        \A i \in 1..Len(fullBookList) :
            Listed(i) => /\ fullBookList[i].Accessibility # "Preview"
                         /\ ~fullBookList[i].IsLocked
                         /\ fullBookList[i].Finished => listAll

\* Ebooks obey the exclusions.
EbookListingExcludes ==
    ListReturned =>
        \A i \in 1..Len(fullBookList) :
            (Listed(i) /\ BookTypeOf(fullBookList[i]) = "EBOOK") =>
                /\ fullBookList[i].Accessibility # "Preview"
                /\ ~fullBookList[i].IsLocked

\* A finished entry is listed exactly with listAll, and an unfinished one
\* always, when it is an active item.
ListingIncludes ==
    ListReturned =>
        \A i \in 1..Len(fullBookList) :
            ActiveItem(fullBookList[i]) =>
                (Listed(i) <=> (fullBookList[i].Finished => listAll))

\* C32: the listing of ListBooks contains no preview and no locked entry,
\* ebook or audiobook, and contains a finished item exactly if listAll was
\* passed.
C32_ListingIsActiveLibrary == ListingExcludes /\ ListingIncludes

----------------------------------------------------------------------------
(* Properties of the path GetBookOrBooks returns, checked under SpecBatch *)

\* GetBookOrBooks was called with a productId and has returned.
SingleReturned == productId # 0 /\ bpc = "returned"

\* The entitlement is an ebook or audiobook with the product id p.
Matches(e, p) ==
    e.NewEntitlement /\ e.type \in {"ebook", "audiobook"} /\ e.RevisionId = p

\* The DRM type the selected variant of an item declares.
DeclaredDrm(e) == DrmTypeField(e.book.variants.list[1])

\* A returned path of an ebook without AdobeDrm holds a file.
OtherDrmPathHoldsFile ==
    (SingleReturned /\ result # 0 /\ bookList[result].type = "ebook"
       /\ DeclaredDrm(bookList[result]) # "AdobeDrm")
        => Exists(disk[result].target)

\* The path returned for an ebook holds a file, whatever the DRM type.
ReturnedPathHoldsFile ==
    (SingleReturned /\ result # 0 /\ bookList[result].type = "ebook")
        => Exists(disk[result].target)

\* None is returned only if no entitlement has the product id.
NoneOnlyWithoutMatch ==
    (SingleReturned /\ result = 0)
        => \A i \in 1..Len(bookList) : ~Matches(bookList[i], productId)

\* C33: with a productId, a path GetBookOrBooks returns for an ebook holds a
\* file, whatever the DRM type of the item, and GetBookOrBooks returns None
\* only if no entitlement of the library has the product id.
C33_ReturnedPathHoldsFile == ReturnedPathHoldsFile /\ NoneOnlyWithoutMatch

====
